---- MODULE Spec2Model ----
(***************************************************************************)
(* http-tap: the intercepting proxy engine of src/http-tap/src/proxy.rs.   *)
(*                                                                         *)
(* Text (header values, URIs, bodies) is a sequence of characters, each a  *)
(* one-character string; "\n" stands for the control bytes, "DEL" for byte *)
(* 127 and "OBS" for a byte >= 128.  Header names are the lower-case names *)
(* a HeaderMap keys its entries by.                                        *)
(***************************************************************************)
EXTENDS Integers, Sequences, FiniteSets, TLC

(***************************************************************************)
(* Option<T>                                                               *)
(***************************************************************************)
None == [some |-> FALSE]

Some(x) == [some |-> TRUE, v |-> x]

(***************************************************************************)
(* Result<T, E> of the library conversions                                 *)
(***************************************************************************)
Err == [ok |-> FALSE]

Ok(x) == [ok |-> TRUE, v |-> x]

(***************************************************************************)
(* Text helpers: str::eq_ignore_ascii_case, str::split, str::trim          *)
(***************************************************************************)
UpperToLower ==
    [c \in {"A", "B", "C", "D", "E", "F", "G", "H", "I", "J", "K", "L", "M",
            "N", "O", "P", "Q", "R", "S", "T", "U", "V", "W", "X", "Y", "Z"} |->
        CASE c = "A" -> "a" [] c = "B" -> "b" [] c = "C" -> "c" [] c = "D" -> "d"
          [] c = "E" -> "e" [] c = "F" -> "f" [] c = "G" -> "g" [] c = "H" -> "h"
          [] c = "I" -> "i" [] c = "J" -> "j" [] c = "K" -> "k" [] c = "L" -> "l"
          [] c = "M" -> "m" [] c = "N" -> "n" [] c = "O" -> "o" [] c = "P" -> "p"
          [] c = "Q" -> "q" [] c = "R" -> "r" [] c = "S" -> "s" [] c = "T" -> "t"
          [] c = "U" -> "u" [] c = "V" -> "v" [] c = "W" -> "w" [] c = "X" -> "x"
          [] c = "Y" -> "y" [] c = "Z" -> "z"]

to_ascii_lowercase(c) == IF c \in DOMAIN UpperToLower THEN UpperToLower[c] ELSE c

eq_ignore_ascii_case(a, b) ==
    /\ Len(a) = Len(b)
    /\ \A i \in 1..Len(a) : to_ascii_lowercase(a[i]) = to_ascii_lowercase(b[i])

Whitespace == {" ", "\t", "\n"}

RECURSIVE trim_start(_)
trim_start(s) ==
    IF s # <<>> /\ Head(s) \in Whitespace THEN trim_start(Tail(s)) ELSE s

RECURSIVE trim_end(_)
trim_end(s) ==
    IF s # <<>> /\ s[Len(s)] \in Whitespace
    THEN trim_end(SubSeq(s, 1, Len(s) - 1))
    ELSE s

trim(s) == trim_end(trim_start(s))

\* The index of the first character of s that is in set cs, or Len(s) + 1.
RECURSIVE find_from(_, _, _)
find_from(s, cs, i) ==
    IF i > Len(s) \/ s[i] \in cs THEN i ELSE find_from(s, cs, i + 1)

find(s, cs) == find_from(s, cs, 1)

\* s.split(sep): the pieces between the separators, empty pieces included.
RECURSIVE split(_, _)
split(s, sep) ==
    LET i == find(s, {sep})
    IN  IF i > Len(s)
        THEN <<s>>
        ELSE <<SubSeq(s, 1, i - 1)>> \o split(SubSeq(s, i + 1, Len(s)), sep)

starts_with(s, p) == Len(s) >= Len(p) /\ SubSeq(s, 1, Len(p)) = p

(***************************************************************************)
(* HeaderValue                                                             *)
(***************************************************************************)
\* HeaderValue::from_str accepts a byte b when b >= 32 && b != 127 || b == '\t'.
is_valid_header_byte(c) == c = "\t" \/ c \notin {"\n", "DEL"}

HeaderValue_from_str(s) ==
    IF \A i \in 1..Len(s) : is_valid_header_byte(s[i]) THEN Ok(s) ELSE Err

\* HeaderValue::to_str succeeds on visible ASCII (32..=126) and tab only.
HeaderValue_to_str(v) ==
    IF \A i \in 1..Len(v) : v[i] \notin {"\n", "DEL", "OBS"} THEN Ok(v) ELSE Err

(***************************************************************************)
(* HeaderMap: name -> the non-empty sequence of the values under the name  *)
(***************************************************************************)
EmptyHeaders == [n \in {} |-> <<>>]

\* HeaderMap::get: the first value associated with the name.
HeaderMap_get(h, name) == IF name \in DOMAIN h THEN Some(h[name][1]) ELSE None

\* HeaderMap::remove: drops every value under the name.
HeaderMap_remove(h, name) == [n \in DOMAIN h \ {name} |-> h[n]]

\* HeaderMap::insert: the value replaces every value under the name.
HeaderMap_insert(h, name, value) ==
    [n \in DOMAIN h \cup {name} |-> IF n = name THEN <<value>> ELSE h[n]]

\* HeaderMap::append: one more value under the name (how a parser fills the map).
HeaderMap_append(h, name, value) ==
    [n \in DOMAIN h \cup {name} |->
        IF n = name
        THEN (IF name \in DOMAIN h THEN Append(h[name], value) ELSE <<value>>)
        ELSE h[n]]

(***************************************************************************)
(* Uri: scheme ("" when absent), authority (<<>> when absent) and the path *)
(* and query text as the http crate stores them                            *)
(***************************************************************************)
MkUri(scheme, authority, pq) ==
    [scheme |-> scheme, authority |-> authority, pq |-> pq]

\* Uri::path_and_query: None for a URI that has an authority and no scheme.
Uri_path_and_query(uri) ==
    IF uri.scheme # "" \/ uri.authority = <<>> THEN Some(uri.pq) ELSE None

\* Variant: the path alone is taken (path() in place of as_str()).
PathAndQuery_as_str_path_only(pq) ==
    LET p == SubSeq(pq, 1, find(pq, {"?"}) - 1)
    IN  IF p = <<>> THEN <<"/">> ELSE p

\* PathAndQuery::as_str: "/" for the empty text.
PathAndQuery_as_str(pq) == IF pq = <<>> THEN <<"/">> ELSE pq

\* PathAndQuery::path: the text before '?', "/" when that is empty.
PathAndQuery_path(pq) ==
    LET p == SubSeq(pq, 1, find(pq, {"?"}) - 1)
    IN  IF p = <<>> THEN <<"/">> ELSE p

\* PathAndQuery::query: the text after the first '?'.
PathAndQuery_query(pq) ==
    LET q == find(pq, {"?"})
    IN  IF q > Len(pq) THEN None ELSE Some(SubSeq(pq, q + 1, Len(pq)))

\* Uri::path: "" when the URI has no path (authority-form).
Uri_path(uri) ==
    IF uri.pq # <<>> \/ uri.scheme # "" THEN PathAndQuery_path(uri.pq) ELSE <<>>

Uri_query(uri) == PathAndQuery_query(uri.pq)

\* Characters the URI parser rejects anywhere.
InvalidUriChars == {" ", "\t", "\n", "DEL", "OBS"}

\* PathAndQuery::from_shared: the text up to a '#', every character checked.
PathAndQuery_parse(s) ==
    LET end  == find(s, {"#"})
        data == SubSeq(s, 1, end - 1)
    IN  IF \E i \in 1..Len(data) : data[i] \in InvalidUriChars THEN Err ELSE Ok(data)

\* Authority::parse: the authority ends at the first '/', '?' or '#'; an
\* invalid character, or more than one ':' outside brackets, is an error.
Authority_parse(s) ==
    LET end  == find(s, {"/", "?", "#"})
        data == SubSeq(s, 1, end - 1)
    IN  IF \/ \E i \in 1..Len(data) : data[i] \in InvalidUriChars
           \/ Cardinality({i \in 1..Len(data) : data[i] = ":"}) > 1
        THEN Err
        ELSE Ok(end - 1)

SchemeText(scheme) ==
    IF scheme = "https" THEN <<"h", "t", "t", "p", "s">> ELSE <<"h", "t", "t", "p">>

SchemeSep == <<":", "/", "/">>

\* Scheme2::parse on the standard schemes: the scheme named by the prefix.
Scheme_parse(s) ==
    IF starts_with(s, SchemeText("http") \o SchemeSep) THEN "http"
    ELSE IF starts_with(s, SchemeText("https") \o SchemeSep) THEN "https"
    ELSE ""

\* str::parse::<Uri> (Uri::from_shared).
Uri_parse(s) ==
    IF s = <<>> THEN Err
    ELSE IF s = <<"/">> \/ s = <<"*">> THEN Ok(MkUri("", <<>>, s))
    ELSE IF Head(s) = "/"
    THEN (LET pq == PathAndQuery_parse(s)
          IN  IF pq.ok THEN Ok(MkUri("", <<>>, pq.v)) ELSE Err)
    ELSE LET scheme == Scheme_parse(s)
             rest   == IF scheme = ""
                       THEN s
                       ELSE SubSeq(s, Len(SchemeText(scheme)) + 4, Len(s))
             auth   == Authority_parse(rest)
         IN  IF ~auth.ok THEN Err
             ELSE IF scheme = "" /\ auth.v # Len(rest) THEN Err
             ELSE IF scheme # "" /\ auth.v = 0 THEN Err
             ELSE LET pq == PathAndQuery_parse(SubSeq(rest, auth.v + 1, Len(rest)))
                  IN  IF pq.ok
                      THEN Ok(MkUri(scheme, SubSeq(rest, 1, auth.v), pq.v))
                      ELSE Err

\* Uri::from_static("/")
UriSlash == MkUri("", <<>>, <<"/">>)

(***************************************************************************)
(* remap_uri, proxy.rs:303                                                 *)
(***************************************************************************)
remap_uri(uri, cfg) ==
    LET pq             == Uri_path_and_query(uri)
        path_and_query == IF pq.some THEN PathAndQuery_as_str(pq.v) ELSE <<"/">>
        full           == SchemeText(cfg.target_scheme) \o SchemeSep
                              \o cfg.target_authority \o path_and_query
        parsed         == Uri_parse(full)
    IN  IF parsed.ok THEN parsed.v ELSE UriSlash

(***************************************************************************)
(* copy_headers_forward, proxy.rs:313                                      *)
(***************************************************************************)
HOP == <<"connection", "proxy-connection", "keep-alive", "transfer-encoding",
         "upgrade", "te", "trailer">>

RECURSIVE remove_each(_, _, _)
remove_each(h, names, i) ==
    IF i > Len(names)
    THEN h
    ELSE remove_each(HeaderMap_remove(h, names[i]), names, i + 1)

\* Variant: the loop over HOP stops after its first name.
remove_hop_first_only(in_headers) == HeaderMap_remove(in_headers, HOP[1])

remove_hop(in_headers) == remove_each(in_headers, HOP, 1)

S_localhost == <<"l", "o", "c", "a", "l", "h", "o", "s", "t">>

\* Variant: the override is ignored.
host_value_no_override(config) == config.target_authority

host_value(config) ==
    IF config.upstream_host.some THEN config.upstream_host.v
    ELSE config.target_authority

host_header(config) ==
    LET hv == HeaderValue_from_str(host_value(config))
    IN  IF hv.ok THEN hv.v ELSE S_localhost

copy_headers_forward(in_headers, config) ==
    HeaderMap_insert(remove_hop(in_headers), "host", host_header(config))

(***************************************************************************)
(* is_websocket_upgrade, proxy.rs:412                                      *)
(***************************************************************************)
S_websocket == <<"w", "e", "b", "s", "o", "c", "k", "e", "t">>

S_upgrade == <<"u", "p", "g", "r", "a", "d", "e">>

header_str(headers, name) ==
    LET v == HeaderMap_get(headers, name)
    IN  IF v.some /\ HeaderValue_to_str(v.v).ok THEN Some(v.v) ELSE None

is_websocket_upgrade(headers) ==
    LET up   == header_str(headers, "upgrade")
        conn == header_str(headers, "connection")
    IN  IF ~(up.some /\ eq_ignore_ascii_case(up.v, S_websocket))
        THEN FALSE
        ELSE /\ conn.some
             /\ \E i \in 1..Len(split(conn.v, ",")) :
                    eq_ignore_ascii_case(trim(split(conn.v, ",")[i]), S_upgrade)

(***************************************************************************)
(* simple_response, proxy.rs:295                                           *)
(***************************************************************************)
S_text_plain == <<"t", "e", "x", "t", "/", "p", "l", "a", "i", "n", ";", " ",
                  "c", "h", "a", "r", "s", "e", "t", "=", "u", "t", "f", "-", "8">>

MkResponse(status, headers, body) ==
    [status |-> status, headers |-> headers, body |-> body]

simple_response(status, msg) ==
    MkResponse(status,
               HeaderMap_append(EmptyHeaders, "content-type", S_text_plain),
               msg)

BAD_REQUEST == 400

BAD_GATEWAY == 502

SWITCHING_PROTOCOLS == 101

Msg_body_error == <<"b", "o", "d", "y", " ", "e", "r", "r", "o", "r">>

Msg_upstream_connection_failed ==
    <<"u", "p", "s", "t", "r", "e", "a", "m", " ", "c", "o", "n", "n", "e", "c",
      "t", "i", "o", "n", " ", "f", "a", "i", "l", "e", "d">>

Msg_upstream_body_error ==
    <<"u", "p", "s", "t", "r", "e", "a", "m", " ", "b", "o", "d", "y", " ", "e",
      "r", "r", "o", "r">>

Msg_ws_handshake_failed ==
    <<"u", "p", "s", "t", "r", "e", "a", "m", " ", "W", "S", " ", "h", "a", "n",
      "d", "s", "h", "a", "k", "e", " ", "f", "a", "i", "l", "e", "d">>

Msg_ws_not_switched ==
    <<"u", "p", "s", "t", "r", "e", "a", "m", " ", "d", "i", "d", " ", "n", "o",
      "t", " ", "s", "w", "i", "t", "c", "h", " ", "p", "r", "o", "t", "o", "c",
      "o", "l", "s">>

(***************************************************************************)
(* The requests handle builds for the upstream client                      *)
(***************************************************************************)
MkRequest(method, uri, headers, body) ==
    [method |-> method, uri |-> uri, headers |-> headers, body |-> body]

\* proxy.rs:239-246: the forwarded copy of a non-tunnel request.
forward_request(req, req_bytes, cfg) ==
    MkRequest(req.method, remap_uri(req.uri, cfg),
              copy_headers_forward(req.headers, cfg), req_bytes)

\* proxy.rs:142-165 and 175-180: the headers captured before the rewrite (the
\* first value of each) are inserted again after it.
WS_KEPT == <<"connection", "upgrade", "sec-websocket-key", "sec-websocket-version",
             "sec-websocket-protocol", "sec-websocket-extensions">>

RECURSIVE reinsert_each(_, _, _, _)
reinsert_each(out, original, names, i) ==
    IF i > Len(names)
    THEN out
    ELSE LET captured == HeaderMap_get(original, names[i])
         IN  reinsert_each(IF captured.some
                           THEN HeaderMap_insert(out, names[i], captured.v)
                           ELSE out,
                           original, names, i + 1)

ws_handshake_headers(headers, cfg) ==
    reinsert_each(copy_headers_forward(headers, cfg), headers, WS_KEPT, 1)

\* proxy.rs:168-180: the bodiless handshake request of an upgrade.
ws_handshake_request(req, cfg) ==
    MkRequest(req.method, remap_uri(req.uri, cfg),
              ws_handshake_headers(req.headers, cfg), <<>>)

\* proxy.rs:199-208: the 101 returned to the client.
ws_client_response(upstream_headers) ==
    MkResponse(SWITCHING_PROTOCOLS, upstream_headers, <<>>)

\* Variant: any answer that is not an error status switches.
ws_switched_unless_error(status) == status < 400

\* proxy.rs:191: the tunnel is entered on 101 only.
ws_switched(status) == status = SWITCHING_PROTOCOLS

\* proxy.rs:282-288: the response returned for a forwarded request.
client_response(status, resp_headers, resp_bytes) ==
    MkResponse(status, resp_headers, resp_bytes)

(***************************************************************************)
(* Logging, proxy.rs:341-406                                               *)
(***************************************************************************)
\* The bytes header names are made of, in ascending byte order.
NameBytes ==
    <<"-", "0", "1", "2", "3", "4", "5", "6", "7", "8", "9", "a", "b", "c", "d",
      "e", "f", "g", "h", "i", "j", "k", "l", "m", "n", "o", "p", "q", "r", "s",
      "t", "u", "v", "w", "x", "y", "z">>

\* HeaderName::as_str: the lowercase text of a header name.
HeaderName_as_str(name) ==
    CASE name = "authorization" ->
             <<"a", "u", "t", "h", "o", "r", "i", "z", "a", "t", "i", "o", "n">>
      [] name = "connection" ->
             <<"c", "o", "n", "n", "e", "c", "t", "i", "o", "n">>
      [] name = "content-length" ->
             <<"c", "o", "n", "t", "e", "n", "t", "-", "l", "e", "n", "g", "t", "h">>
      [] name = "content-type" ->
             <<"c", "o", "n", "t", "e", "n", "t", "-", "t", "y", "p", "e">>
      [] name = "cookie" ->
             <<"c", "o", "o", "k", "i", "e">>
      [] name = "host" ->
             <<"h", "o", "s", "t">>
      [] name = "keep-alive" ->
             <<"k", "e", "e", "p", "-", "a", "l", "i", "v", "e">>
      [] name = "proxy-connection" ->
             <<"p", "r", "o", "x", "y", "-", "c", "o", "n", "n", "e", "c", "t", "i", "o", "n">>
      [] name = "sec-websocket-accept" ->
             <<"s", "e", "c", "-", "w", "e", "b", "s", "o", "c", "k", "e", "t", "-", "a", "c",
               "c", "e", "p", "t">>
      [] name = "sec-websocket-extensions" ->
             <<"s", "e", "c", "-", "w", "e", "b", "s", "o", "c", "k", "e", "t", "-", "e", "x",
               "t", "e", "n", "s", "i", "o", "n", "s">>
      [] name = "sec-websocket-key" ->
             <<"s", "e", "c", "-", "w", "e", "b", "s", "o", "c", "k", "e", "t", "-", "k", "e",
               "y">>
      [] name = "sec-websocket-protocol" ->
             <<"s", "e", "c", "-", "w", "e", "b", "s", "o", "c", "k", "e", "t", "-", "p", "r",
               "o", "t", "o", "c", "o", "l">>
      [] name = "sec-websocket-version" ->
             <<"s", "e", "c", "-", "w", "e", "b", "s", "o", "c", "k", "e", "t", "-", "v", "e",
               "r", "s", "i", "o", "n">>
      [] name = "set-cookie" ->
             <<"s", "e", "t", "-", "c", "o", "o", "k", "i", "e">>
      [] name = "te" ->
             <<"t", "e">>
      [] name = "trailer" ->
             <<"t", "r", "a", "i", "l", "e", "r">>
      [] name = "transfer-encoding" ->
             <<"t", "r", "a", "n", "s", "f", "e", "r", "-", "e", "n", "c", "o", "d", "i", "n",
               "g">>
      [] name = "upgrade" ->
             <<"u", "p", "g", "r", "a", "d", "e">>
      [] name = "x-a" ->
             <<"x", "-", "a">>
      [] name = "x-b" ->
             <<"x", "-", "b">>
      [] name = "x-o" ->
             <<"x", "-", "o">>

\* The position of a byte in NameBytes.
byte_rank(b) == CHOOSE i \in 1..Len(NameBytes) : NameBytes[i] = b

\* Ord for str: bytewise lexicographic, a proper prefix first.
RECURSIVE str_lt(_, _)
str_lt(a, b) ==
    IF b = <<>> THEN FALSE
    ELSE IF a = <<>> THEN TRUE
    ELSE IF a[1] # b[1] THEN byte_rank(a[1]) < byte_rank(b[1])
    ELSE str_lt(Tail(a), Tail(b))

\* proxy.rs:376-377: the distinct names of the map, sorted.
RECURSIVE sort_unstable(_)
sort_unstable(names) ==
    IF names = {} THEN <<>>
    ELSE LET least == CHOOSE n \in names : \A m \in names \ {n} :
                          str_lt(HeaderName_as_str(n), HeaderName_as_str(m))
         IN  <<least>> \o sort_unstable(names \ {least})

S_redacted == <<"<", "r", "e", "d", "a", "c", "t", "e", "d", ">">>

Digits == <<"0", "1", "2", "3", "4", "5", "6", "7", "8", "9">>

\* usize's Display: the decimal digits.
RECURSIVE usize_to_string(_)
usize_to_string(n) ==
    IF n < 10 THEN <<Digits[n + 1]>>
    ELSE usize_to_string(n \div 10) \o <<Digits[(n % 10) + 1]>>

\* proxy.rs:385: format!("<{} bytes>", len)
bytes_marker(len) ==
    <<"<">> \o usize_to_string(len) \o <<" ", "b", "y", "t", "e", "s", ">">>

\* proxy.rs:380: redact.iter().any(|r| r.eq_ignore_ascii_case(name))
is_redacted(name, redact) ==
    \E i \in 1..Len(redact) : eq_ignore_ascii_case(redact[i], HeaderName_as_str(name))

\* Variant: the redaction list is compared byte for byte (`r == name`).
header_display_case_sensitive(val, name, redact) ==
    IF \E i \in 1..Len(redact) : redact[i] = HeaderName_as_str(name)
    THEN S_redacted
    ELSE IF HeaderValue_to_str(val) # Err THEN val
    ELSE bytes_marker(Len(val))

\* proxy.rs:380-387: what is printed for a header's value.
header_display(val, name, redact) ==
    IF is_redacted(name, redact) THEN S_redacted
    ELSE IF HeaderValue_to_str(val) # Err THEN val
    ELSE bytes_marker(Len(val))

\* proxy.rs:375-391: one line per name, in name order, showing the first of
\* the name's values.
print_headers(headers, redact) ==
    LET names == sort_unstable(DOMAIN headers)
    IN  [i \in 1..Len(names) |->
            [name |-> names[i],
             display |-> header_display(HeaderMap_get(headers, names[i]).v,
                                        names[i], redact)]]

\* String::from_utf8_lossy: bytes that are not UTF-8 become U+FFFD.
from_utf8_lossy(bytes) ==
    [i \in 1..Len(bytes) |-> IF bytes[i] = "OBS" THEN "U+FFFD" ELSE bytes[i]]

min(a, b) == IF a < b THEN a ELSE b

\* proxy.rs:393-406: the preview line of a body.
print_body(body, max) ==
    LET take == min(Len(body), max)
    IN  IF take = 0
        THEN [form |-> "no body", counts |-> <<>>, printable |-> <<>>]
        ELSE IF Len(body) > take
        THEN [form |-> "truncated", counts |-> <<take, Len(body)>>,
              printable |-> from_utf8_lossy(SubSeq(body, 1, take))]
        ELSE [form |-> "whole", counts |-> <<Len(body)>>,
              printable |-> from_utf8_lossy(SubSeq(body, 1, take))]

\* proxy.rs:356-358, 370-372
log_body(cfg, body) ==
    IF cfg.include_bodies THEN Some(print_body(body, cfg.max_body_bytes)) ELSE None

\* proxy.rs:341-359: the block printed for a forwarded request.
log_request(cfg, conn_id, req, body) ==
    [kind |-> "REQUEST", conn_id |-> conn_id, method |-> req.method,
     uri |-> req.uri, headers |-> print_headers(req.headers, cfg.redact_header),
     body |-> log_body(cfg, body)]

\* proxy.rs:361-373: the block printed for a forwarded response.
log_response(cfg, conn_id, resp, body) ==
    [kind |-> "RESPONSE", conn_id |-> conn_id, status |-> resp.status,
     headers |-> print_headers(resp.headers, cfg.redact_header),
     body |-> log_body(cfg, body)]

\* A line written to stderr.
eprintln(what) == [kind |-> "eprintln", what |-> what]

(***************************************************************************)
(* Key material: build_tls_acceptor (main.rs:73-122) and                   *)
(* build_https_connector (proxy.rs:478-577)                                *)
(***************************************************************************)
\* A file named by a path option: whether File::open succeeds, and the items
\* the rustls_pemfile iterators yield from it: "ok" for a section that parses,
\* "bad" for an error item, and for a key "unusable" when it parses but rustls
\* refuses to build a configuration with it.
MkFile(open, certs, pkcs8, rsa) ==
    [open |-> open, certs |-> certs, pkcs8_private_keys |-> pkcs8,
     rsa_private_keys |-> rsa]

\* collect::<Result<Vec<_>, _>>(): an error when any item is one.
collect(items) ==
    IF \E i \in 1..Len(items) : items[i] = "bad" THEN Err ELSE Ok(items)

\* filter_map(|c| c.ok()): the items that parsed.
filter_map_ok(items) == SelectSeq(items, LAMBDA item : item # "bad")

\* with_single_cert, with_client_auth_cert: the key must be one rustls accepts.
with_cert(key) == IF key = "ok" THEN Ok(key) ELSE Err

\* main.rs:97-111: PKCS8 keys first, the RSA keys of the reopened file when
\* there is none.
tls_keys(key_file) ==
    IF ~collect(key_file.pkcs8_private_keys).ok THEN Err
    ELSE IF key_file.pkcs8_private_keys # <<>> THEN Ok(key_file.pkcs8_private_keys)
    ELSE collect(key_file.rsa_private_keys)

\* main.rs:73-122
build_tls_acceptor(cli) ==
    IF ~cli.listen_tls_cert.some \/ ~cli.listen_tls_key.some THEN Err
    ELSE LET cert_file == cli.listen_tls_cert.v
             key_file == cli.listen_tls_key.v
         IN  IF ~cert_file.open \/ ~key_file.open THEN Err
             ELSE IF ~collect(cert_file.certs).ok THEN Err
             ELSE IF cert_file.certs = <<>> THEN Err
             ELSE IF ~tls_keys(key_file).ok THEN Err
             ELSE IF tls_keys(key_file).v = <<>> THEN Err
             ELSE IF ~with_cert(tls_keys(key_file).v[1]).ok THEN Err
             ELSE Ok("acceptor")

\* Variant: a failure to build the acceptor leaves the listener without TLS
\* (`build_tls_acceptor(&cli).ok()`).
tls_acceptor_or_plaintext(cli) ==
    IF cli.listen_tls_cert.some \/ cli.listen_tls_key.some
    THEN IF build_tls_acceptor(cli).ok THEN Ok(Some("acceptor")) ELSE Ok(None)
    ELSE Ok(None)

\* main.rs:42-44
tls_acceptor(cli) ==
    IF cli.listen_tls_cert.some \/ cli.listen_tls_key.some
    THEN IF build_tls_acceptor(cli).ok THEN Ok(Some("acceptor")) ELSE Err
    ELSE Ok(None)

\* u16::from_str: decimal digits after an optional '+', at most 65535.
RECURSIVE digits_value(_, _)
digits_value(s, acc) ==
    IF s = <<>> THEN Ok(acc)
    ELSE IF \A d \in 1..10 : Digits[d] # s[1] THEN Err
    ELSE LET next == acc * 10 + (CHOOSE d \in 1..10 : Digits[d] = s[1]) - 1
         IN  IF next > 65535 THEN Err ELSE digits_value(Tail(s), next)

parse_u16(s) ==
    LET digits == IF s # <<>> /\ s[1] = "+" THEN Tail(s) ELSE s
    IN  IF digits = <<>> THEN Err ELSE digits_value(digits, 0)

\* str::rsplit_once(':'): the position of the last ':', 0 when there is none.
rfind_colon(s) ==
    IF \E i \in 1..Len(s) : s[i] = ":"
    THEN CHOOSE i \in 1..Len(s) : s[i] = ":" /\ \A j \in (i + 1)..Len(s) : s[j] # ":"
    ELSE 0

S_http_prefix == <<"h", "t", "t", "p", ":", "/", "/">>

S_https_prefix == <<"h", "t", "t", "p", "s", ":", "/", "/">>

HttpsPort == 443

\* main.rs:17-33: the authority and the scheme of --target.
normalize_target(target) ==
    IF starts_with(target, S_http_prefix)
    THEN <<SubSeq(target, Len(S_http_prefix) + 1, Len(target)), "http">>
    ELSE IF starts_with(target, S_https_prefix)
    THEN <<SubSeq(target, Len(S_https_prefix) + 1, Len(target)), "https">>
    ELSE IF rfind_colon(target) = 0 THEN <<target, "http">>
    ELSE LET host == SubSeq(target, 1, rfind_colon(target) - 1)
             port == parse_u16(SubSeq(target, rfind_colon(target) + 1, Len(target)))
         IN  IF port.ok
             THEN <<host \o <<":">> \o usize_to_string(port.v),
                    IF port.v = HttpsPort THEN "https" ELSE "http">>
             ELSE <<target, "http">>

\* SocketAddr::from_str, for the IPv4 form: an address of digits and dots, a
\* ':' and a u16 port.
SocketAddr_from_str(s) ==
    LET colon == rfind_colon(s)
    IN  IF colon <= 1 THEN Err
        ELSE IF \E i \in 1..(colon - 1) :
                    s[i] # "." /\ \A d \in 1..10 : Digits[d] # s[i] THEN Err
        ELSE IF ~parse_u16(SubSeq(s, colon + 1, Len(s))).ok THEN Err
        ELSE Ok(s)

\* cli.rs:81-84
listen_addr(cli) == SocketAddr_from_str(cli.listen)

\* ServerName::try_from(String): a DNS name or an IP address; of the rules only
\* the character set and the non-empty text are modelled.
ServerName_try_from(name) ==
    IF name # <<>>
       /\ \A i \in 1..Len(name) :
              \/ \E b \in 1..Len(NameBytes) : NameBytes[b] = to_ascii_lowercase(name[i])
              \/ name[i] \in {".", "_"}
    THEN Ok(name) ELSE Err

W_ca_unopenable == "Warning: unable to open upstream CA file"

W_client_pair_invalid == "Warning: invalid client cert/key for upstream mTLS"

W_client_key_missing == "Warning: upstream client key not found or invalid"

W_client_chain_empty == "Warning: upstream client cert chain empty"

\* proxy.rs:499-513: the roots the extra CA files add and the warnings printed.
RECURSIVE load_extra_cas(_, _, _)
load_extra_cas(paths, i, acc) ==
    IF i > Len(paths) THEN acc
    ELSE load_extra_cas(paths, i + 1,
             IF paths[i].open
             THEN [acc EXCEPT !.roots = @ + Len(filter_map_ok(paths[i].certs))]
             ELSE [acc EXCEPT !.warnings = Append(@, eprintln(W_ca_unopenable))])

\* proxy.rs:519-528
client_chain(cert_file) ==
    IF cert_file.open THEN filter_map_ok(cert_file.certs) ELSE <<>>

\* proxy.rs:530-549
client_key(key_file) ==
    IF ~key_file.open THEN None
    ELSE LET pkcs8 == filter_map_ok(key_file.pkcs8_private_keys)
             keys == IF pkcs8 = <<>> THEN filter_map_ok(key_file.rsa_private_keys)
                     ELSE pkcs8
         IN  IF keys = <<>> THEN None ELSE Some(keys[1])

\* proxy.rs:516-568: whether the client presents a certificate, and the
\* warning printed when it was asked to and cannot.
client_auth(config) ==
    IF config.upstream_client_cert.some /\ config.upstream_client_key.some
    THEN LET chain == client_chain(config.upstream_client_cert.v)
             key_der == client_key(config.upstream_client_key.v)
         IN  IF chain = <<>>
             THEN [auth |-> FALSE, warnings |-> <<eprintln(W_client_chain_empty)>>]
             ELSE IF ~key_der.some
             THEN [auth |-> FALSE, warnings |-> <<eprintln(W_client_key_missing)>>]
             ELSE IF ~with_cert(key_der.v).ok
             THEN [auth |-> FALSE, warnings |-> <<eprintln(W_client_pair_invalid)>>]
             ELSE [auth |-> TRUE, warnings |-> <<>>]
    ELSE [auth |-> FALSE, warnings |-> <<>>]

\* proxy.rs:486-489, 571-574
server_name(config) ==
    IF ~config.upstream_server_name.some THEN Ok(None)
    ELSE IF ServerName_try_from(config.upstream_server_name.v).ok
    THEN Ok(Some(config.upstream_server_name.v))
    ELSE Err

\* proxy.rs:499-500, 518-519, 531: the files the strict branch opens, in order:
\* every extra CA file, then the client certificate and key when both are set.
files_opened(config) ==
    config.upstream_ca
    \o (IF config.upstream_client_cert.some /\ config.upstream_client_key.some
        THEN <<config.upstream_client_cert.v, config.upstream_client_key.v>>
        ELSE <<>>)

\* The strict branch of build_https_connector, proxy.rs:491-575.
strict_connector(config) ==
    LET cas == load_extra_cas(config.upstream_ca, 1,
                              [roots |-> 0, warnings |-> <<>>])
        auth == client_auth(config)
    IN  [warnings |-> cas.warnings \o auth.warnings,
         opened |-> files_opened(config),
         connector |->
             IF server_name(config).ok
             THEN Ok([verifier |-> "WebPki", extra_roots |-> cas.roots,
                      client_auth |-> auth.auth,
                      server_name |-> server_name(config).v])
             ELSE Err]

\* Variant: with insecure_upstream the client certificate is still loaded, and
\* only the verifier differs.
build_https_connector_keeping_client_auth(config) ==
    IF config.insecure_upstream
    THEN [strict_connector(config) EXCEPT
              !.connector = IF @.ok THEN Ok([@.v EXCEPT !.verifier = "NoVerifier"])
                            ELSE @]
    ELSE strict_connector(config)

\* proxy.rs:478-577: the warnings printed, the files opened and the connector,
\* or the error.
build_https_connector(config) ==
    IF config.insecure_upstream
    THEN [warnings |-> <<>>,
          opened |-> <<>>,
          connector |->
              IF server_name(config).ok
              THEN Ok([verifier |-> "NoVerifier", extra_roots |-> 0,
                       client_auth |-> FALSE,
                       server_name |-> server_name(config).v])
              ELSE Err]
    ELSE strict_connector(config)

\* The certificate an upstream presents in the TLS handshake: who issued it (a
\* CA of the platform's store, the CA of the extra CA file, or itself), whether
\* its validity period is over, and whether it names the server the connector
\* asks for.
MkCert(issuer, expired, for_server_name) ==
    [issuer |-> issuer, expired |-> expired, for_server_name |-> for_server_name]

\* proxy.rs:493-515: the root store holds the platform's certificates and the
\* ones read from the extra CA files.
trusted_issuers(connector) ==
    {"native"} \cup (IF connector.extra_roots > 0 THEN {"extra"} ELSE {})

\* rustls's WebPkiServerVerifier, which with_root_certificates installs.
WebPki_verify_server_cert(connector, end_entity) ==
    IF /\ end_entity.issuer \in trusted_issuers(connector)
       /\ ~end_entity.expired
       /\ end_entity.for_server_name
    THEN Ok("ServerCertVerified") ELSE Err

\* Variant: the verifier still refuses a certificate whose validity is over.
NoVerifier_rejecting_expired(end_entity) ==
    IF end_entity.expired THEN Err ELSE Ok("ServerCertVerified")

\* proxy.rs:433-442
NoVerifier_verify_server_cert(end_entity) == Ok("ServerCertVerified")

\* The verifier the connector was built with decides.
verify_server_cert(connector, end_entity) ==
    IF connector.verifier = "NoVerifier"
    THEN NoVerifier_verify_server_cert(end_entity)
    ELSE WebPki_verify_server_cert(connector, end_entity)

\* proxy.rs:55-58: the client of the process, built once from the Config.
client_of(config) == build_https_connector(config).connector

\* https_or_http (proxy.rs:485, 570): an https target is reached through a TLS
\* handshake in which the upstream's certificate is verified; an http target is
\* reached without one.  None: no certificate was looked at.
upstream_handshake(config, end_entity) ==
    IF config.target_scheme # "https" THEN None
    ELSE Some([end_entity |-> end_entity,
               verified |-> verify_server_cert(client_of(config).v, end_entity).ok])

\* Whether the connection to the upstream comes about.
upstream_connects(config, end_entity) ==
    /\ client_of(config).ok
    /\ upstream_handshake(config, end_entity).some =>
           upstream_handshake(config, end_entity).v.verified

(***************************************************************************)
(* State                                                                   *)
(***************************************************************************)
VARIABLES
    cfg,        \* Config, fixed at startup
    listener,   \* "listening", or "failed" once accept returned an error
    conn_seq,   \* ProxyState::conn_seq
    conns,      \* the spawned connection tasks, in the order of their accept
    stats_rx,   \* the receiving half of the stats channel and what it holds
    main,       \* where main() stands, with its inputs
    repo,       \* interactive-branch-delete: the Git repository
    app,        \* interactive-branch-delete: the App of the UI, once made
    run,        \* interactive-branch-delete: where run() stands, with its inputs
    dashboard   \* the dashboard's App, where its table is followed

\* The state of http-tap and the state of interactive-branch-delete: two
\* programs, neither touches the other's.
http_tap_vars == <<cfg, listener, conn_seq, conns, stats_rx, main, dashboard>>

branch_delete_vars == <<repo, app, run>>

vars == <<cfg, listener, conn_seq, conns, stats_rx, main, repo, app, run, dashboard>>

\* interactive-branch-delete is not running.
NoBranchDelete == repo = None /\ app = None /\ run = None

S_authorization == HeaderName_as_str("authorization")

S_cookie == HeaderName_as_str("cookie")

S_set_cookie == HeaderName_as_str("set-cookie")

\* cli.rs:32-37
DefaultRedactHeader == <<S_authorization, S_cookie, S_set_cookie>>

\* cli.rs:28
DefaultMaxBodyBytes == 2048

MkConfig(scheme, authority, host, tls, stats) ==
    [target_scheme |-> scheme, target_authority |-> authority,
     upstream_host |-> host, tls |-> tls, stats |-> stats,
     redact_header |-> DefaultRedactHeader, include_bodies |-> FALSE,
     max_body_bytes |-> DefaultMaxBodyBytes,
     insecure_upstream |-> FALSE, upstream_ca |-> <<>>,
     upstream_client_cert |-> None, upstream_client_key |-> None,
     upstream_server_name |-> None]

\* The options of a configuration that decide how the upstream is verified.
WithUpstreamTls(config, insecure, ca) ==
    [config EXCEPT !.insecure_upstream = insecure, !.upstream_ca = ca]

\* The logging options of a configuration.
WithLogging(config, redact, include_bodies, max) ==
    [config EXCEPT !.redact_header = redact, !.include_bodies = include_bodies,
                   !.max_body_bytes = max]

\* A connection task as tokio::spawn creates it (proxy.rs:77, 96).
NewConn ==
    [phase      |-> "spawned",  \* spawned, tls_failed, idle, handling, closed
     conn_id    |-> None,
     served     |-> 0,          \* requests this connection has begun
     pc         |-> "none",     \* where handle is suspended
     req        |-> None,       \* the request being handled
     req_bytes  |-> None,       \* its collected body
     dispatched |-> <<>>,       \* requests handed to the upstream client
     peer_cert  |-> None,       \* the upstream's certificate and the verdict on it
     upstream   |-> None,       \* the upstream's response head
     resp_bytes |-> None,       \* the upstream's collected body
     returned   |-> <<>>,       \* what handle returned for the request
     outcome    |-> "none",     \* which return of handle was taken
     prev       |-> "none",     \* outcome of the connection's previous request
     tunnel     |-> "none",     \* none, spawned, relaying, failed, relay_ok, relay_err
     trace      |-> <<>>]       \* the request's log lines and stats events

\* AtomicU64::fetch_add(1, Relaxed): one atomic read-modify-write.  The 64-bit
\* counter wraps after 2^64 connections, far beyond any number of accepts here.
fetch_add(v) == v + 1

\* Variant: the counter is read but not advanced (a load in place of fetch_add).
next_conn_seq_load_only(v) == v

\* ProxyState::next_conn_id, proxy.rs:126: the counter after the call.
next_conn_seq(v) == fetch_add(v)

(***************************************************************************)
(* Aggregator, stats.rs:14-61                                              *)
(***************************************************************************)
\* MethodCounts::default()
MethodCounts_default ==
    [get |-> 0, post |-> 0, put |-> 0, patch |-> 0, delete_ |-> 0, other |-> 0]

\* Aggregator::default(): the map has no key.
Aggregator_default == [map |-> [p \in {} |-> MethodCounts_default]]

\* stats.rs:45-52: the counter the `match` on the method picks.
counter_of(method) ==
    CASE method = "GET" -> "get"
      [] method = "POST" -> "post"
      [] method = "PUT" -> "put"
      [] method = "PATCH" -> "patch"
      [] method = "DELETE" -> "delete_"
      [] OTHER -> "other"

\* stats.rs:39-43: entry(path).or_insert_with(..)
entry_or_insert(agg, ev) ==
    IF ev.path \in DOMAIN agg.map
    THEN agg.map[ev.path]
    ELSE [path |-> ev.path, counts |-> MethodCounts_default, last_seen |-> ev.at]

\* Variant: last_seen is set when the record is made and not afterwards.
Aggregator_apply_first_seen(agg, ev) ==
    LET rec == entry_or_insert(agg, ev)
    IN  [map |-> (ev.path :> [rec EXCEPT !.counts[counter_of(ev.method)] = @ + 1])
                 @@ agg.map]

\* Aggregator::apply, stats.rs:38-54
Aggregator_apply(agg, ev) ==
    LET rec == entry_or_insert(agg, ev)
    IN  [map |-> (ev.path :> [rec EXCEPT !.counts[counter_of(ev.method)] = @ + 1,
                                        !.last_seen = ev.at])
                 @@ agg.map]

\* The dashboard's App, tui.rs:14-20 and 35.
\* The table is not followed, or run_tui has returned and dropped its App.
NoTuiApp == [follow |-> FALSE, app |-> None, applied |-> <<>>]

\* App::new, tui.rs:19; `applied` keeps the events given to the App's
\* Aggregator since it was made.
TuiApp_new(follow) ==
    [follow |-> follow, app |-> Some([agg |-> Aggregator_default]), applied |-> <<>>]

\* tui.rs:35: app.agg.apply(ev)
TuiApp_apply(t, ev) ==
    IF ~t.follow
    THEN t
    ELSE [t EXCEPT !.app = Some([agg |-> Aggregator_apply(t.app.v.agg, ev)]),
                   !.applied = Append(@, ev)]

\* ProxyState::new, proxy.rs:119
ConnSeqInit == 1

InitWith(cfgs) ==
    /\ cfg \in cfgs
    /\ listener = "listening"
    /\ conn_seq = ConnSeqInit
    /\ conns = <<>>
    /\ stats_rx = [open |-> cfg.stats, pending |-> <<>>]
    /\ main = [pc |-> IF cfg.stats THEN "run_tui" ELSE "run_proxy"]
    /\ dashboard = NoTuiApp
    /\ NoBranchDelete

\* main.rs:60-70: with the dashboard the proxy runs as a background task and the
\* process outlives run_proxy; without it the process ends when run_proxy does.
ProcessAlive == main.pc # "exited" /\ (listener = "listening" \/ cfg.stats)

Conns == 1..Len(conns)

(***************************************************************************)
(* run_proxy, proxy.rs:72-108                                              *)
(***************************************************************************)
\* Variant: the inbound TLS handshake is awaited in the loop, before the spawn.
awaited_by_loop_handshake_inline(cs) ==
    {c \in 1..Len(cs) : cs[c].phase = "spawned"}

\* proxy.rs:72-108: the connections whose work the loop awaits before its next
\* accept.  The loop body clones the state and calls tokio::spawn, which returns
\* at once; the handshake and serve_connection are awaited inside the task.
awaited_by_loop(cs) == {}

\* listener.accept() returned a socket: the task is spawned.
Accept(limit) ==
    /\ listener = "listening"
    /\ awaited_by_loop(conns) = {}
    /\ Len(conns) < limit
    /\ conns' = Append(conns, NewConn)
    /\ UNCHANGED <<cfg, listener, conn_seq, stats_rx, main>>
    /\ UNCHANGED <<repo, app, run, dashboard>>

\* listener.accept() returned an error: `?` ends run_proxy.
AcceptErr ==
    /\ listener = "listening"
    /\ listener' = "failed"
    /\ UNCHANGED <<cfg, conn_seq, conns, stats_rx, main>>
    /\ UNCHANGED <<repo, app, run, dashboard>>

\* The spawned task runs: (TLS handshake done,) next_conn_id, serve_connection.
start_serving(conn, id) == [conn EXCEPT !.phase = "idle", !.conn_id = Some(id)]

TaskStart(c) ==
    /\ ProcessAlive
    /\ conns[c].phase = "spawned"
    /\ ~cfg.tls
    /\ conns' = [conns EXCEPT ![c] = start_serving(@, conn_seq)]
    /\ conn_seq' = next_conn_seq(conn_seq)
    /\ UNCHANGED <<cfg, listener, stats_rx, main>>
    /\ UNCHANGED <<repo, app, run, dashboard>>

TlsAcceptOk(c) ==
    /\ ProcessAlive
    /\ conns[c].phase = "spawned"
    /\ cfg.tls
    /\ conns' = [conns EXCEPT ![c] = start_serving(@, conn_seq)]
    /\ conn_seq' = next_conn_seq(conn_seq)
    /\ UNCHANGED <<cfg, listener, stats_rx, main>>
    /\ UNCHANGED <<repo, app, run, dashboard>>

TlsAcceptErr(c) ==
    /\ ProcessAlive
    /\ conns[c].phase = "spawned"
    /\ cfg.tls
    /\ conns' = [conns EXCEPT ![c].phase = "tls_failed",
                              ![c].trace = Append(@, eprintln("TLS accept error"))]
    /\ UNCHANGED <<cfg, listener, conn_seq, stats_rx, main>>
    /\ UNCHANGED <<repo, app, run, dashboard>>

\* The peer closes an idle connection: serve_connection returns.
ConnClose(c) ==
    /\ ProcessAlive
    /\ conns[c].phase = "idle"
    /\ conns' = [conns EXCEPT ![c].phase = "closed"]
    /\ UNCHANGED <<cfg, listener, conn_seq, stats_rx, main>>
    /\ UNCHANGED <<repo, app, run, dashboard>>

(***************************************************************************)
(* The dashboard, tui.rs:14-105 and main.rs:60-66                          *)
(***************************************************************************)
\* tui.rs:34-36: the loop drains the channel.
StatsRecv ==
    /\ main.pc = "run_tui"
    /\ stats_rx.pending # <<>>
    /\ stats_rx' = [stats_rx EXCEPT !.pending = Tail(@)]
    /\ dashboard' = TuiApp_apply(dashboard, Head(stats_rx.pending))
    /\ UNCHANGED <<cfg, listener, conn_seq, conns, main>>
    /\ UNCHANGED branch_delete_vars

\* tui.rs:91: the key `c` replaces the table by an empty one.
TuiClear ==
    /\ main.pc = "run_tui"
    /\ dashboard.follow
    /\ dashboard' = TuiApp_new(TRUE)
    /\ UNCHANGED <<cfg, listener, conn_seq, conns, stats_rx, main>>
    /\ UNCHANGED branch_delete_vars

\* tui.rs:90 or an error of the terminal: run_tui returns and drops the
\* receiver; main returns next.
TuiExit ==
    /\ main.pc = "run_tui"
    /\ stats_rx' = [open |-> FALSE, pending |-> <<>>]
    /\ main' = [main EXCEPT !.pc = "returning"]
    /\ dashboard' = NoTuiApp
    /\ UNCHANGED <<cfg, listener, conn_seq, conns>>
    /\ UNCHANGED branch_delete_vars

\* main.rs:66: main has returned; the runtime is gone and every task with it.
ProcessExit ==
    /\ main.pc = "returning"
    /\ main' = [main EXCEPT !.pc = "exited"]
    /\ UNCHANGED <<cfg, listener, conn_seq, conns, stats_rx>>
    /\ UNCHANGED <<repo, app, run, dashboard>>

(***************************************************************************)
(* handle, proxy.rs:131-293                                                *)
(***************************************************************************)
\* serve_connection after the service future resolved: an Err ends the
\* connection; a 101 hands the socket over and ends serve_connection; any
\* other response is written and the next request is awaited.
phase_after(result) ==
    IF result.ret = "Err" THEN "closed"
    ELSE IF result.resp.status = SWITCHING_PROTOCOLS THEN "closed"
    ELSE "idle"

ReturnOk(resp) == [ret |-> "Ok", resp |-> resp]

\* Variant: the body error is propagated (`collect().await?`).
on_body_error_propagated == [ret |-> "Err"]

\* proxy.rs:233-236
on_body_error == ReturnOk(simple_response(BAD_REQUEST, Msg_body_error))

\* Variant: the upstream error is propagated (`request(forwarded).await?`).
on_upstream_error_propagated == [ret |-> "Err"]

\* proxy.rs:264-270
on_upstream_error ==
    ReturnOk(simple_response(BAD_GATEWAY, Msg_upstream_connection_failed))

\* Variant: the body error is propagated (`collect().await?`).
on_resp_body_error_propagated == [ret |-> "Err"]

\* proxy.rs:276-279
on_resp_body_error == ReturnOk(simple_response(BAD_GATEWAY, Msg_upstream_body_error))

\* Variant: the handshake failure is blamed on the client.
on_ws_handshake_error_bad_request ==
    ReturnOk(simple_response(BAD_REQUEST, Msg_ws_handshake_failed))

\* proxy.rs:185-188
on_ws_handshake_error == ReturnOk(simple_response(BAD_GATEWAY, Msg_ws_handshake_failed))

\* proxy.rs:191-197
on_ws_not_switched == ReturnOk(simple_response(BAD_GATEWAY, Msg_ws_not_switched))

\* handle returns `result` on the path named `outcome`, having printed `lines`.
finish(conn, result, outcome, lines) ==
    [conn EXCEPT !.pc = "returned",
                 !.returned = Append(@, result),
                 !.outcome = outcome,
                 !.trace = @ \o lines,
                 !.phase = phase_after(result)]

\* hyper calls the service with the next request of the connection
\* (proxy.rs:137-183 up to the first await).
begin(conn, req) ==
    LET fresh == [conn EXCEPT !.phase = "handling",
                              !.served = @ + 1,
                              !.req = Some(req),
                              !.req_bytes = None,
                              !.dispatched = <<>>,
                              !.peer_cert = None,
                              !.upstream = None,
                              !.resp_bytes = None,
                              !.returned = <<>>,
                              !.prev = conn.outcome,
                              !.outcome = "none",
                              !.trace = <<>>]
    IN  IF is_websocket_upgrade(req.headers)
        THEN [fresh EXCEPT !.pc = "ws_upstream",
                           !.dispatched = <<ws_handshake_request(req, cfg)>>]
        ELSE [fresh EXCEPT !.pc = "body"]

HandleBegin(c, req, max_reqs) ==
    /\ ProcessAlive
    /\ conns[c].phase = "idle"
    /\ conns[c].served < max_reqs
    /\ conns' = [conns EXCEPT ![c] = begin(@, req)]
    /\ UNCHANGED <<cfg, listener, conn_seq, stats_rx, main>>
    /\ UNCHANGED <<repo, app, run, dashboard>>

\* proxy.rs:185-188
WsUpstreamErr(c) ==
    /\ ProcessAlive
    /\ conns[c].pc = "ws_upstream"
    /\ conns' = [conns EXCEPT ![c] =
           finish(@, on_ws_handshake_error, "ws_handshake_failed",
                  <<eprintln("upstream WS handshake error")>>)]
    /\ UNCHANGED <<cfg, listener, conn_seq, stats_rx, main>>
    /\ UNCHANGED <<repo, app, run, dashboard>>

\* proxy.rs:183-188: the connector refused the upstream's certificate; the
\* client's request fails like any other connect failure.
WsUpstreamTlsErr(c, end_entity) ==
    /\ ProcessAlive
    /\ conns[c].pc = "ws_upstream"
    /\ ~upstream_connects(cfg, end_entity)
    /\ conns' = [conns EXCEPT ![c] =
           finish([@ EXCEPT !.peer_cert = upstream_handshake(cfg, end_entity)],
                  on_ws_handshake_error, "ws_handshake_failed",
                  <<eprintln("upstream WS handshake error")>>)]
    /\ UNCHANGED <<cfg, listener, conn_seq, stats_rx, main>>
    /\ UNCHANGED <<repo, app, run, dashboard>>

\* proxy.rs:191-227
ws_answer(conn, status, headers) ==
    IF ~ws_switched(status)
    THEN finish(conn, on_ws_not_switched, "ws_not_switched",
                <<eprintln("upstream WS expected 101")>>)
    ELSE [finish(conn, ReturnOk(ws_client_response(headers)), "ws_switched", <<>>)
            EXCEPT !.tunnel = "spawned"]

WsUpstreamResp(c, end_entity, status, headers) ==
    /\ ProcessAlive
    /\ conns[c].pc = "ws_upstream"
    /\ upstream_connects(cfg, end_entity)
    /\ conns' = [conns EXCEPT ![c] =
           ws_answer([@ EXCEPT !.peer_cert = upstream_handshake(cfg, end_entity),
                               !.upstream = Some([status |-> status,
                                                  headers |-> headers])],
                     status, headers)]
    /\ UNCHANGED <<cfg, listener, conn_seq, stats_rx, main>>
    /\ UNCHANGED <<repo, app, run, dashboard>>

\* Connection::poll of serve_connection (proxy.rs:83-85, 100-102): the
\* builder is used without with_upgrades(), so hyper resolves the request's
\* pending upgrade with an error instead of the socket.
ServerUpgrades == {FALSE}

\* proxy.rs:212-225: the tunnel task.
tunnel_run(down_ok, up_ok) == IF down_ok /\ up_ok THEN "relaying" ELSE "failed"

tunnel_lines(down_ok, up_ok) ==
    IF down_ok /\ up_ok THEN <<>> ELSE <<eprintln("WS upgrade tunnel error")>>

TunnelRun(c, down_ok, up_ok) ==
    /\ ProcessAlive
    /\ conns[c].tunnel = "spawned"
    /\ conns' = [conns EXCEPT ![c].tunnel = tunnel_run(down_ok, up_ok),
                              ![c].trace = @ \o tunnel_lines(down_ok, up_ok)]
    /\ UNCHANGED <<cfg, listener, conn_seq, stats_rx, main>>
    /\ UNCHANGED <<repo, app, run, dashboard>>

\* proxy.rs:218: the result of copy_bidirectional is bound to `_`; the task
\* prints nothing about it and goes on to drop(state_clone).
relay_end(result) == IF result = "Err" THEN "relay_err" ELSE "relay_ok"

relay_end_lines(result) == <<>>

\* copy_bidirectional returns: both directions reached end of stream (Ok), or
\* a read or write on either socket failed (Err).
TunnelRelayEnd(c, result) ==
    /\ ProcessAlive
    /\ conns[c].tunnel = "relaying"
    /\ conns' = [conns EXCEPT ![c].tunnel = relay_end(result),
                              ![c].trace = @ \o relay_end_lines(result)]
    /\ UNCHANGED <<cfg, listener, conn_seq, stats_rx, main>>
    /\ UNCHANGED <<repo, app, run, dashboard>>

\* proxy.rs:233-236
BodyErr(c) ==
    /\ ProcessAlive
    /\ conns[c].pc = "body"
    /\ conns' = [conns EXCEPT ![c] =
           finish(@, on_body_error, "body_error", <<eprintln("request body error")>>)]
    /\ UNCHANGED <<cfg, listener, conn_seq, stats_rx, main>>
    /\ UNCHANGED <<repo, app, run, dashboard>>

\* Variant: the path alone is taken (Uri::path in place of path_and_query).
stats_path_without_query(uri) ==
    IF Uri_path(uri) = <<>> THEN <<"/">> ELSE Uri_path(uri)

\* proxy.rs:250-254: the event's path is the request target's path and query.
stats_path(uri) ==
    LET pq == Uri_path_and_query(uri)
    IN  IF pq.some THEN PathAndQuery_as_str(pq.v) ELSE <<"/">>

\* proxy.rs:255-259 (the timestamp is left out).
StatsEvent(req) == [method |-> req.method, path |-> stats_path(req.uri)]

\* UnboundedSender::send: fails once the receiver is dropped, never blocks.
stats_send(rx, event) ==
    [kind |-> "stats", event |-> event, result |-> IF rx.open THEN "Ok" ELSE "Err"]

\* The channel after a send: the event is queued while the receiver lives.
received(rx, event) == IF rx.open THEN [rx EXCEPT !.pending = Append(@, event)] ELSE rx

\* Variant: the result of send is propagated (`tx.send(..)?`).
after_stats_send_propagated(result) == result

\* proxy.rs:255: `let _ =` drops the result of send.
after_stats_send(result) == "Ok"

\* Variant: the request is handed to the upstream client first and logged and
\* counted afterwards.
dispatch_then_log(conn, req_bytes) ==
    LET forwarded == forward_request(conn.req.v, req_bytes, cfg)
        logged == <<log_request(cfg, conn.conn_id.v, forwarded, req_bytes)>>
        sent == IF cfg.stats THEN <<stats_send(stats_rx, StatsEvent(conn.req.v))>>
                ELSE <<>>
    IN  [conn EXCEPT !.pc = "upstream",
                     !.req_bytes = Some(req_bytes),
                     !.dispatched = Append(@, forwarded),
                     !.trace = @ \o <<[kind |-> "dispatch"]>> \o logged \o sent]

\* proxy.rs:232, 239-262: the body is in; the forwarded request is built,
\* logged, counted and handed to the upstream client.
dispatch(conn, req_bytes) ==
    LET forwarded == forward_request(conn.req.v, req_bytes, cfg)
        logged == <<log_request(cfg, conn.conn_id.v, forwarded, req_bytes)>>
        sent == IF cfg.stats THEN <<stats_send(stats_rx, StatsEvent(conn.req.v))>>
                ELSE <<>>
    IN  IF \E i \in 1..Len(sent) : after_stats_send(sent[i].result) = "Err"
        THEN finish([conn EXCEPT !.req_bytes = Some(req_bytes)], [ret |-> "Err"],
                    "stats_failed", logged \o sent)
        ELSE [conn EXCEPT !.pc = "upstream",
                          !.req_bytes = Some(req_bytes),
                          !.dispatched = Append(@, forwarded),
                          !.trace = @ \o logged \o sent \o <<[kind |-> "dispatch"]>>]

BodyOk(c, req_bytes) ==
    /\ ProcessAlive
    /\ conns[c].pc = "body"
    /\ conns' = [conns EXCEPT ![c] = dispatch(@, req_bytes)]
    /\ stats_rx' = IF cfg.stats
                   THEN received(stats_rx, StatsEvent(conns[c].req.v))
                   ELSE stats_rx
    /\ UNCHANGED <<cfg, listener, conn_seq, main>>
    /\ UNCHANGED <<repo, app, run, dashboard>>

\* proxy.rs:255-259 taken on its own: some handler sends the event of its
\* request, stamped with the time of the send.
StatsSend(ev, limit) ==
    /\ ProcessAlive
    /\ cfg.stats
    /\ Len(stats_rx.pending) + Len(dashboard.applied) < limit
    /\ stats_rx' = received(stats_rx, ev)
    /\ UNCHANGED <<cfg, listener, conn_seq, conns, main>>
    /\ UNCHANGED <<repo, app, run, dashboard>>

\* Variant: a request the upstream client failed on is handed to it once more.
upstream_failed_retried_once(conn) ==
    IF Len(conn.dispatched) < 2
    THEN [conn EXCEPT !.dispatched = Append(@, @[1]),
                      !.trace = Append(@, [kind |-> "dispatch"])]
    ELSE finish(conn, on_upstream_error, "upstream_failed",
                <<eprintln("upstream error")>>)

\* proxy.rs:262-270: client.request returned an error; it is printed and the 502
\* is returned.
upstream_failed(conn) ==
    finish(conn, on_upstream_error, "upstream_failed", <<eprintln("upstream error")>>)

\* proxy.rs:264-270
UpstreamErr(c) ==
    /\ ProcessAlive
    /\ conns[c].pc = "upstream"
    /\ conns' = [conns EXCEPT ![c] = upstream_failed(@)]
    /\ UNCHANGED <<cfg, listener, conn_seq, stats_rx, main>>
    /\ UNCHANGED <<repo, app, run, dashboard>>

\* proxy.rs:262-270: the connector refused the upstream's certificate; the
\* client's request fails like any other connect failure.
UpstreamTlsErr(c, end_entity) ==
    /\ ProcessAlive
    /\ conns[c].pc = "upstream"
    /\ ~upstream_connects(cfg, end_entity)
    /\ conns' = [conns EXCEPT ![c] =
           upstream_failed([@ EXCEPT !.peer_cert = upstream_handshake(cfg, end_entity)])]
    /\ UNCHANGED <<cfg, listener, conn_seq, stats_rx, main>>
    /\ UNCHANGED <<repo, app, run, dashboard>>

\* proxy.rs:263, 273: the upstream's response head arrived.
UpstreamResp(c, end_entity, status, headers) ==
    /\ ProcessAlive
    /\ conns[c].pc = "upstream"
    /\ upstream_connects(cfg, end_entity)
    /\ conns' = [conns EXCEPT ![c].pc = "resp_body",
                              ![c].peer_cert = upstream_handshake(cfg, end_entity),
                              ![c].upstream = Some([status |-> status,
                                                    headers |-> headers])]
    /\ UNCHANGED <<cfg, listener, conn_seq, stats_rx, main>>
    /\ UNCHANGED <<repo, app, run, dashboard>>

\* proxy.rs:276-279
RespBodyErr(c) ==
    /\ ProcessAlive
    /\ conns[c].pc = "resp_body"
    /\ conns' = [conns EXCEPT ![c] =
           finish(@, on_resp_body_error, "resp_body_error",
                  <<eprintln("response body error")>>)]
    /\ UNCHANGED <<cfg, listener, conn_seq, stats_rx, main>>
    /\ UNCHANGED <<repo, app, run, dashboard>>

\* proxy.rs:275, 282-292
RespBodyOk(c, resp_bytes) ==
    /\ ProcessAlive
    /\ conns[c].pc = "resp_body"
    /\ conns' = [conns EXCEPT ![c] =
           finish([@ EXCEPT !.resp_bytes = Some(resp_bytes)],
                  ReturnOk(client_response(conns[c].upstream.v.status,
                                           conns[c].upstream.v.headers,
                                           resp_bytes)),
                  "forwarded",
                  <<log_response(cfg, conns[c].conn_id.v,
                                 client_response(conns[c].upstream.v.status,
                                                 conns[c].upstream.v.headers,
                                                 resp_bytes),
                                 resp_bytes)>>)]
    /\ UNCHANGED <<cfg, listener, conn_seq, stats_rx, main>>
    /\ UNCHANGED <<repo, app, run, dashboard>>

(***************************************************************************)
(* Startup: main (main.rs:36-71) and run_proxy up to its loop              *)
(***************************************************************************)
\* main.rs:40, 46-58: the Config main builds.  Its literal leaves out the
\* upstream_* fields Config declares (proxy.rs:38-42); they are taken from the
\* options of the same names (cli.rs:59-77).
Config_of(cli, acceptor) ==
    [target_authority |-> normalize_target(cli.target)[1],
     target_scheme |->
         IF normalize_target(cli.target)[2] = "https" THEN "https" ELSE "http",
     include_bodies |-> cli.include_bodies,
     max_body_bytes |-> cli.max_body_bytes,
     redact_header |-> cli.redact_header,
     tls |-> acceptor.some,
     insecure_upstream |-> cli.insecure_upstream,
     stats |-> cli.tui,
     upstream_ca |-> cli.upstream_ca,
     upstream_client_cert |-> cli.upstream_client_cert,
     upstream_client_key |-> cli.upstream_client_key,
     upstream_server_name |-> cli.upstream_server_name,
     upstream_host |-> cli.upstream_host]

\* main.rs:37-44: the listen address is parsed and the acceptor is built.
MainStart ==
    /\ main.pc = "start"
    /\ main' = IF ~listen_addr(main.cli).ok \/ ~tls_acceptor(main.cli).ok
               THEN [main EXCEPT !.pc = "failed"]
               ELSE [main EXCEPT !.pc = "config",
                                 !.tls_acceptor = tls_acceptor(main.cli).v]
    /\ UNCHANGED <<cfg, listener, conn_seq, conns, stats_rx>>
    /\ UNCHANGED <<repo, app, run, dashboard>>

\* main.rs:46-68: the stats channel and the Config are made and run_proxy is
\* started, awaited by main or, with the dashboard, spawned beside run_tui.
MainConfig ==
    /\ main.pc = "config"
    /\ cfg' = Config_of(main.cli, main.tls_acceptor)
    /\ stats_rx' = [open |-> main.cli.tui, pending |-> <<>>]
    /\ main' = [main EXCEPT !.pc = IF main.cli.tui THEN "run_tui" ELSE "run_proxy"]
    /\ UNCHANGED <<listener, conn_seq, conns>>
    /\ UNCHANGED <<repo, app, run, dashboard>>

\* run_proxy returned an error: main returns it (main.rs:68) or, with the
\* dashboard, drops it (main.rs:62).
run_proxy_failed(m) == IF m.pc = "run_proxy" THEN [m EXCEPT !.pc = "failed"] ELSE m

\* proxy.rs:51-53
RunProxyBind ==
    /\ main.pc \in {"run_proxy", "run_tui"}
    /\ listener = "none"
    /\ listener' = "bound"
    /\ UNCHANGED <<cfg, conn_seq, conns, stats_rx, main>>
    /\ UNCHANGED <<repo, app, run, dashboard>>

RunProxyBindErr ==
    /\ main.pc \in {"run_proxy", "run_tui"}
    /\ listener = "none"
    /\ listener' = "failed"
    /\ main' = run_proxy_failed(main)
    /\ UNCHANGED <<cfg, conn_seq, conns, stats_rx>>
    /\ UNCHANGED <<repo, app, run, dashboard>>

\* proxy.rs:55-71: the client is built, and with it the shared state; the
\* accept loop is entered.
RunProxyClient ==
    /\ main.pc \in {"run_proxy", "run_tui"}
    /\ listener = "bound"
    /\ LET built == build_https_connector(cfg)
       IN  /\ listener' = IF built.connector.ok THEN "listening" ELSE "failed"
           /\ main' = [(IF built.connector.ok THEN main ELSE run_proxy_failed(main))
                          EXCEPT !.warnings = built.warnings,
                                 !.opened = built.opened,
                                 !.client = IF built.connector.ok
                                            THEN Some(built.connector.v) ELSE None]
    /\ UNCHANGED <<cfg, conn_seq, conns, stats_rx>>
    /\ UNCHANGED <<repo, app, run, dashboard>>

(***************************************************************************)
(* interactive-branch-delete: git.rs, app.rs, tui.rs, delete.rs            *)
(***************************************************************************)
\* A repository: its commits (each with its strict ancestors and its time), its
\* local branches (name and tip), the branch HEAD names (None when detached)
\* and the branch refs/remotes/origin/HEAD points to.
MkRepo(commits, branches, head, remote_head) ==
    [commits |-> commits, branches |-> branches, head |-> head,
     remote_head |-> remote_head]

branch_names(r) == {b.name : b \in r.branches}

\* git.rs:26-35
current_branch_name(r) == IF r.head.some THEN Ok(r.head.v) ELSE Err

S_main == <<"m", "a", "i", "n">>

S_master == <<"m", "a", "s", "t", "e", "r">>

\* git.rs:37-64
resolve_base_branch(r, current_branch) ==
    IF r.remote_head.some THEN Ok(r.remote_head.v)
    ELSE IF S_main \in branch_names(r) THEN Ok(S_main)
    ELSE IF S_master \in branch_names(r) THEN Ok(S_master)
    ELSE IF current_branch.some THEN Ok(current_branch.v)
    ELSE Err

\* git.rs:66-73
ensure_local_branch(r, name) == IF name \in branch_names(r) THEN Ok(name) ELSE Err

\* Repository::graph_descendant_of(commit, ancestor): a commit is not a
\* descendant of itself.
graph_descendant_of(r, commit, ancestor) == ancestor \in r.commits[commit].ancestors

\* Vec::sort_by over names (git.rs:124): the branches in the order of their names.
RECURSIVE sort_by_name(_)
sort_by_name(infos) ==
    IF infos = {} THEN <<>>
    ELSE LET first == CHOOSE a \in infos :
                          \A b \in infos \ {a} : str_lt(a.name, b.name)
         IN  <<first>> \o sort_by_name(infos \ {first})

\* git.rs:105-120: what is recorded of a branch.
BranchInfo_of(r, branch, base_oid) ==
    LET timestamp == r.commits[branch.tip].time
    IN  [name |-> branch.name,
         tip |-> branch.tip,
         commit_timestamp |-> IF timestamp >= 0 THEN Some(timestamp) ELSE None,
         merged |-> graph_descendant_of(r, base_oid, branch.tip)]

\* git.rs:75-126: every local branch, merged or not, in the order of the names.
collect_local_branches(r, base_branch) ==
    IF base_branch \notin branch_names(r) THEN Err
    ELSE LET base_oid == (CHOOSE b \in r.branches : b.name = base_branch).tip
         IN  Ok(sort_by_name({BranchInfo_of(r, b, base_oid) : b \in r.branches}))

\* git.rs:128-134
BranchInfo_age(info, now) ==
    IF ~info.commit_timestamp.some THEN None
    ELSE IF now >= info.commit_timestamp.v THEN Some(now - info.commit_timestamp.v)
    ELSE None

\* Variant: the base branch alone is dropped, with or without a current branch.
retain_base_only(merged, base_branch, current_branch_result) ==
    SelectSeq(merged, LAMBDA branch : branch.name # base_branch)

\* main.rs:45-49
retain(merged, base_branch, current_branch_result) ==
    SelectSeq(merged, LAMBDA branch :
        /\ branch.name # base_branch
        /\ current_branch_result.ok => branch.name # current_branch_result.v)

\* app.rs:13-20
BranchItem_new(info, now) ==
    [info |-> info, selected |-> FALSE, age |-> BranchInfo_age(info, now)]

\* app.rs:41-46: the comparator says Less.
age_cmp_less(a, b) ==
    IF a.age.some /\ b.age.some THEN b.age.v < a.age.v
    ELSE IF a.age.some THEN TRUE
    ELSE IF b.age.some THEN FALSE
    ELSE str_lt(a.info.name, b.info.name)

\* Vec::sort_by is stable: an item goes behind the items that are not greater.
RECURSIVE sort_by_age(_)
sort_by_age(items) ==
    IF items = <<>> THEN <<>>
    ELSE LET sorted == sort_by_age(SubSeq(items, 1, Len(items) - 1))
             item == items[Len(items)]
             k == Cardinality({i \in 1..Len(sorted) : ~age_cmp_less(item, sorted[i])})
         IN  SubSeq(sorted, 1, k) \o <<item>> \o SubSeq(sorted, k + 1, Len(sorted))

\* app.rs:34-57
App_new(branches, base_branch, current_branch, now) ==
    [branches |-> sort_by_age([i \in 1..Len(branches) |->
                                  BranchItem_new(branches[i], now)]),
     cursor |-> 0,
     should_quit |-> FALSE,
     confirmed |-> FALSE,
     message |-> None,
     base_branch |-> base_branch,
     current_branch |-> current_branch]

\* app.rs:134-136
App_set_message(a, message) == [a EXCEPT !.message = Some(message)]

\* app.rs:138-140
App_clear_message(a) == [a EXCEPT !.message = None]

\* app.rs:63-69
App_move_down(a) ==
    IF a.branches = <<>> THEN a
    ELSE [App_clear_message(a) EXCEPT !.cursor = min(a.cursor + 1, Len(a.branches) - 1)]

\* app.rs:71-79
App_move_up(a) ==
    IF a.branches = <<>> THEN a
    ELSE [App_clear_message(a) EXCEPT !.cursor = IF a.cursor > 0 THEN a.cursor - 1
                                                 ELSE a.cursor]

\* app.rs:81-85: the cursor counts from 0.
App_toggle_current(a) ==
    IF a.cursor < Len(a.branches)
    THEN [a EXCEPT !.branches[a.cursor + 1].selected = ~@]
    ELSE a

\* app.rs:87-92
App_toggle_all(a) ==
    LET all_selected == \A i \in 1..Len(a.branches) : a.branches[i].selected
    IN  [a EXCEPT !.branches = [i \in 1..Len(a.branches) |->
                                   [a.branches[i] EXCEPT !.selected = ~all_selected]]]

\* app.rs:94-96
App_cancel(a) == [a EXCEPT !.should_quit = TRUE]

\* app.rs:123-128
App_selected_count(a) ==
    Cardinality({i \in 1..Len(a.branches) : a.branches[i].selected})

Msg_select_first == "Select at least one branch before confirming."

Msg_usage ==
    "Use space to toggle branches (green = merged, red = unmerged). Press enter to confirm."

\* Variant: Enter confirms whatever is selected, nothing included.
App_confirm_unchecked(a) == [a EXCEPT !.confirmed = TRUE, !.should_quit = TRUE]

\* app.rs:98-105
App_confirm(a) ==
    IF App_selected_count(a) = 0 THEN App_set_message(a, Msg_select_first)
    ELSE [a EXCEPT !.confirmed = TRUE, !.should_quit = TRUE]

\* app.rs:146-152
App_selected_branch_infos(a) ==
    LET chosen == SelectSeq(a.branches, LAMBDA branch : branch.selected)
    IN  [i \in 1..Len(chosen) |-> chosen[i].info]

\* tui.rs:47-63: the key codes are named as crossterm names them.
handle_key_event(a, code) ==
    CASE code \in {"q", "Esc"} -> App_cancel(a)
      [] code \in {"Down", "j"} -> App_move_down(a)
      [] code \in {"Up", "k"} -> App_move_up(a)
      [] code = " " -> App_clear_message(App_toggle_current(a))
      [] code = "a" -> App_clear_message(App_toggle_all(a))
      [] code = "Enter" -> App_confirm(a)
      [] OTHER -> a

\* delete.rs:27-50 without --dry-run, branch after branch.  `failing` names the
\* branches Branch::delete refuses besides the one HEAD names.
RECURSIVE delete_each(_, _, _, _, _)
delete_each(r, branches, i, failing, results) ==
    IF i > Len(branches) THEN [results |-> results, repo |-> r]
    ELSE LET name == branches[i].name
             status == IF name \notin branch_names(r) THEN "Error: failed to locate"
                       ELSE IF name \in failing \/ r.head = Some(name)
                       THEN "Error: failed to delete"
                       ELSE "Deleted"
         IN  delete_each(IF status = "Deleted"
                         THEN [r EXCEPT !.branches = {b \in @ : b.name # name}]
                         ELSE r,
                         branches, i + 1, failing,
                         Append(results, [name |-> name, status |-> status]))

\* Variant: --dry-run is not looked at.
delete_branches_ignoring_dry_run(r, branches, dry_run, failing) ==
    delete_each(r, branches, 1, failing, <<>>)

\* delete.rs:19-55
delete_branches(r, branches, dry_run, failing) ==
    IF dry_run
    THEN [results |-> [i \in 1..Len(branches) |->
                          [name |-> branches[i].name, status |-> "DryRun"]],
          repo |-> r]
    ELSE delete_each(r, branches, 1, failing, <<>>)

(***************************************************************************)
(* interactive-branch-delete: run, main.rs:24-83, and tui::run             *)
(***************************************************************************)
\* main.rs:36-40
base_branch_of(r, cli, current_branch_result) ==
    IF cli.base.some THEN Ok(cli.base.v)
    ELSE resolve_base_branch(r, IF current_branch_result.ok
                                THEN Some(current_branch_result.v) ELSE None)

\* main.rs:24-67: up to the call of tui::run.
RunStart(now) ==
    /\ run # None /\ run.pc = "start"
    /\ LET current == current_branch_name(repo)
           base == base_branch_of(repo, run.cli, current)
       IN  IF ~base.ok \/ ~ensure_local_branch(repo, base.v).ok
           THEN run' = [run EXCEPT !.pc = "failed"] /\ app' = app
           ELSE LET merged == retain(collect_local_branches(repo, base.v).v,
                                     base.v, current)
                IN  IF merged = <<>>
                    THEN /\ run' = [run EXCEPT !.pc = "done", !.base_branch = Some(base.v),
                                               !.printed = "no branches"]
                         /\ app' = app
                    ELSE IF run.cli.list_only
                    THEN /\ run' = [run EXCEPT !.pc = "done", !.base_branch = Some(base.v),
                                               !.printed = "listing",
                                               !.listed = merged]
                         /\ app' = app
                    ELSE /\ run' = [run EXCEPT !.pc = "tui", !.base_branch = Some(base.v)]
                         /\ app' = App_set_message(
                                App_new(merged, base.v,
                                        IF current.ok THEN current.v ELSE <<>>, now),
                                Msg_usage)
    /\ UNCHANGED repo
    /\ UNCHANGED http_tap_vars

\* tui.rs:26-37: the loop has drawn, is not asked to quit and reads a key.
Key(code) ==
    /\ run # None /\ run.pc = "tui"
    /\ ~app.should_quit
    /\ app' = handle_key_event(app, code)
    /\ UNCHANGED <<repo, run>>
    /\ UNCHANGED http_tap_vars

\* tui.rs:19-44: a call on the terminal failed; `?` returns the error through
\* tui::run and run (main.rs:69).
TuiErr ==
    /\ run # None /\ run.pc = "tui"
    /\ run' = [run EXCEPT !.pc = "failed"]
    /\ UNCHANGED <<repo, app>>
    /\ UNCHANGED http_tap_vars

\* tui.rs:29-31, 40-44 and main.rs:71-82: the loop ends and run goes on.
RunFinish(failing) ==
    /\ run # None /\ run.pc = "tui"
    /\ app.should_quit
    /\ IF ~app.confirmed
       THEN /\ run' = [run EXCEPT !.pc = "done", !.printed = "aborted"]
            /\ repo' = repo
       ELSE LET selections == App_selected_branch_infos(app)
                deleted == delete_branches(repo, selections, run.cli.dry_run, failing)
            IN  /\ run' = [run EXCEPT !.pc = "done", !.printed = "summary",
                                      !.passed = Some(selections),
                                      !.results = deleted.results]
                /\ repo' = deleted.repo
    /\ UNCHANGED app
    /\ UNCHANGED http_tap_vars

(***************************************************************************)
(* Inputs: configurations, client requests and upstream answers            *)
(***************************************************************************)
MaxConns == 2

MaxReqs == 2

A_up == <<"u", ":", "8">>

A_base == <<"u", "/", "b">>

A_space == <<"u", " ", "v">>

V_host == <<"v">>

V_host_bad == <<"v", "\n">>

S_Upgrade == <<"U", "p", "g", "r", "a", "d", "e">>

S_keepalive_Upgrade ==
    <<"k", "e", "e", "p", "-", "a", "l", "i", "v", "e", ",", " ", "U", "p", "g",
      "r", "a", "d", "e">>

S_notupgrade == <<"n", "o", "t", "u", "p", "g", "r", "a", "d", "e">>

S_WebSocket == <<"W", "e", "b", "S", "o", "c", "k", "e", "t">>

S_close == <<"c", "l", "o", "s", "e">>

S_chunked == <<"c", "h", "u", "n", "k", "e", "d">>

\* Client header sets.
H_plain == "host" :> << <<"c">> >>

H_hop ==
    ("host" :> << <<"c">>, <<"d">> >>) @@ ("connection" :> << S_close >>)
    @@ ("proxy-connection" :> << S_close >>) @@ ("keep-alive" :> << <<"5">> >>)
    @@ ("transfer-encoding" :> << S_chunked >>) @@ ("upgrade" :> << <<"h", "2", "c">> >>)
    @@ ("te" :> << <<"x">>, <<"y">> >>) @@ ("trailer" :> << <<"z">> >>)
    @@ ("x-a" :> << <<"1">>, <<"2">> >>)
    @@ ("authorization" :> << <<"s", "1">> >>)
    @@ ("cookie" :> << <<"s", "2">>, <<"s", "3">> >>)
    @@ ("x-o" :> << <<"o", "OBS">> >>)

H_ws ==
    ("host" :> << <<"c">> >>) @@ ("connection" :> << S_Upgrade >>)
    @@ ("upgrade" :> << S_websocket >>) @@ ("sec-websocket-key" :> << <<"k">> >>)
    @@ ("sec-websocket-version" :> << <<"1", "3">> >>)

H_ws_mixed ==
    ("host" :> << <<"c">> >>) @@ ("connection" :> << S_keepalive_Upgrade >>)
    @@ ("upgrade" :> << S_WebSocket >>) @@ ("sec-websocket-key" :> << <<"k">> >>)
    @@ ("sec-websocket-protocol" :> << <<"a">>, <<"b">> >>)
    @@ ("te" :> << <<"x">> >>) @@ ("keep-alive" :> << <<"5">> >>)

H_not_ws ==
    ("host" :> << <<"c">> >>) @@ ("connection" :> << S_notupgrade >>)
    @@ ("upgrade" :> << S_websocket >>)

\* Header sets around the upgrade trigger: the two headers on their own, an
\* Upgrade to another protocol, Connection and Upgrade sent as two header lines
\* each, a Connection value with a byte that is not ASCII, and
\* Sec-WebSocket-Extensions sent as two header lines.
S_keep_alive == <<"k", "e", "e", "p", "-", "a", "l", "i", "v", "e">>

S_h2c == <<"h", "2", "c">>

H_upgrade_only == ("host" :> << <<"c">> >>) @@ ("upgrade" :> << S_websocket >>)

H_connection_only == ("host" :> << <<"c">> >>) @@ ("connection" :> << S_Upgrade >>)

H_h2c ==
    ("host" :> << <<"c">> >>) @@ ("connection" :> << S_Upgrade >>)
    @@ ("upgrade" :> << S_h2c >>)

H_ws_two_connection ==
    ("host" :> << <<"c">> >>) @@ ("connection" :> << S_keep_alive, S_Upgrade >>)
    @@ ("upgrade" :> << S_websocket >>) @@ ("sec-websocket-key" :> << <<"k">> >>)

H_ws_two_upgrade ==
    ("host" :> << <<"c">> >>) @@ ("connection" :> << S_Upgrade >>)
    @@ ("upgrade" :> << S_h2c, S_websocket >>)

H_ws_obs ==
    ("host" :> << <<"c">> >>) @@ ("connection" :> << S_Upgrade \o <<",", "OBS">> >>)
    @@ ("upgrade" :> << S_websocket >>)

H_ws_extensions ==
    ("host" :> << <<"c">> >>) @@ ("connection" :> << S_Upgrade, S_keep_alive >>)
    @@ ("upgrade" :> << S_websocket >>) @@ ("sec-websocket-key" :> << <<"k">> >>)
    @@ ("sec-websocket-version" :> << <<"1", "3">> >>)
    @@ ("sec-websocket-extensions" :> << <<"x">>, <<"y">> >>)
    @@ ("cookie" :> << <<"s", "2">> >>)

UpgradeHeaders ==
    {H_plain, H_hop, H_ws, H_ws_mixed, H_not_ws, H_upgrade_only, H_connection_only,
     H_h2c, H_ws_two_connection, H_ws_two_upgrade, H_ws_obs, H_ws_extensions}

\* Upstream response header sets.
R_plain == "content-length" :> << <<"2">> >>

R_hop ==
    ("connection" :> << S_close >>) @@ ("transfer-encoding" :> << S_chunked >>)
    @@ ("keep-alive" :> << <<"5">> >>) @@ ("x-b" :> << <<"1">>, <<"2">> >>)
    @@ ("set-cookie" :> << <<"s", "4">>, <<"s", "5">> >>)

R_ws ==
    ("connection" :> << S_Upgrade >>) @@ ("upgrade" :> << S_websocket >>)
    @@ ("sec-websocket-accept" :> << <<"k">> >>)

ClientRequest(method, uri, headers) ==
    [method |-> method, uri |-> uri, headers |-> headers]

\* The request targets hyper hands to the service: origin-form, absolute-form
\* (with and without a path), authority-form (CONNECT) and asterisk-form.
U_origin == MkUri("", <<>>, <<"/", "p", "?", "q">>)

U_absolute == MkUri("http", <<"c">>, <<"/", "p">>)

U_absolute_query == MkUri("http", <<"c">>, <<"?", "q">>)

U_authority == MkUri("", <<"c", ":", "4">>, <<>>)

U_asterisk == MkUri("", <<>>, <<"*">>)

Targets ==
    {<<"GET", U_origin>>, <<"POST", U_absolute>>, <<"GET", U_absolute_query>>,
     <<"CONNECT", U_authority>>, <<"OPTIONS", U_asterisk>>}

Requests ==
    {ClientRequest(t[1], t[2], h) :
        t \in Targets, h \in {H_plain, H_hop, H_ws, H_ws_mixed, H_not_ws}}

Configs ==
    {MkConfig(t[1], t[2], h, FALSE, FALSE) :
        t \in {<<"http", A_up>>, <<"https", A_up>>, <<"http", A_base>>,
               <<"http", A_space>>},
        h \in {None, Some(V_host), Some(V_host_bad)}}

Statuses == {200, 404}

WsStatuses == {101, 200}

ResponseHeaders == {R_plain, R_hop, R_ws}

Bodies == {<<>>, <<"o", "k">>}

\* The smaller inputs of the whole-process specification.
ProcConfigs ==
    {MkConfig("http", A_up, None, tls, stats) : tls \in BOOLEAN, stats \in BOOLEAN}

ProcRequests == {ClientRequest("GET", U_origin, H_plain),
                 ClientRequest("GET", U_origin, H_ws)}

\* The inputs of the logging and stats specification.
S_Authorization ==
    <<"A", "u", "t", "h", "o", "r", "i", "z", "a", "t", "i", "o", "n">>

S_SET_COOKIE == <<"S", "E", "T", "-", "C", "o", "o", "k", "i", "e">>

S_X_O == <<"X", "-", "O">>

RedactMixedCase == <<S_Authorization, S_SET_COOKIE, S_X_O>>

\* --redact-header, --include-bodies and --max-body-bytes as given to the proxy.
LogOptions ==
    {<<DefaultRedactHeader, FALSE, DefaultMaxBodyBytes>>,
     <<RedactMixedCase, TRUE, 0>>,
     <<DefaultRedactHeader, TRUE, 1>>,
     <<<<>>, TRUE, 2>>}

LogConfigs ==
    {WithLogging(MkConfig("http", A_up, None, FALSE, stats), o[1], o[2], o[3]) :
        o \in LogOptions, stats \in BOOLEAN}

LogRequests ==
    {ClientRequest("GET", U_origin, H_hop),
     ClientRequest("POST", U_absolute, H_plain),
     ClientRequest("GET", U_absolute_query, H_plain),
     ClientRequest("CONNECT", U_authority, H_plain),
     ClientRequest("GET", U_origin, H_ws)}

LogBodies == Bodies \cup {<<"o", "OBS", "k">>}

\* The files the path options may name.
F_missing == MkFile(FALSE, <<>>, <<>>, <<>>)

F_empty == MkFile(TRUE, <<>>, <<>>, <<>>)

F_cert == MkFile(TRUE, <<"ok">>, <<>>, <<>>)

F_cert_bad == MkFile(TRUE, <<"bad">>, <<>>, <<>>)

F_cert_mixed == MkFile(TRUE, <<"ok", "bad">>, <<>>, <<>>)

F_pkcs8 == MkFile(TRUE, <<>>, <<"ok">>, <<>>)

F_pkcs8_bad == MkFile(TRUE, <<>>, <<"bad">>, <<>>)

F_rsa == MkFile(TRUE, <<>>, <<>>, <<"ok">>)

F_rsa_bad == MkFile(TRUE, <<>>, <<>>, <<"bad">>)

F_key_unusable == MkFile(TRUE, <<>>, <<"unusable">>, <<>>)

CertFiles == {F_missing, F_empty, F_cert, F_cert_bad, F_cert_mixed}

KeyFiles == {F_missing, F_empty, F_pkcs8, F_pkcs8_bad, F_rsa, F_rsa_bad, F_key_unusable}

\* Upstream certificates: one a public CA issued, one the CA of the extra CA
\* file issued, a self-signed one, an expired one, one for another name.
Cert_public == MkCert("native", FALSE, TRUE)

Cert_private == MkCert("extra", FALSE, TRUE)

Cert_self_signed == MkCert("self", FALSE, TRUE)

Cert_expired == MkCert("native", TRUE, TRUE)

Cert_self_signed_expired == MkCert("self", TRUE, TRUE)

Cert_other_name == MkCert("native", FALSE, FALSE)

Certs == {Cert_public, Cert_private, Cert_self_signed, Cert_expired,
          Cert_self_signed_expired, Cert_other_name}

\* Targets over http and https, verified or not, with and without an extra CA.
UpstreamTlsConfigs ==
    {WithUpstreamTls(MkConfig(scheme, A_up, None, FALSE, FALSE), insecure, ca) :
        scheme \in {"http", "https"}, insecure \in BOOLEAN,
        ca \in {<<>>, <<F_cert>>, <<F_missing>>}}

UpstreamTlsRequests == {ClientRequest("GET", U_origin, H_plain),
                        ClientRequest("GET", U_origin, H_ws)}

L_local == <<"1", ".", "2", ":", "8">>

L_name == <<"x", ":", "8">>

T_up == <<"u", ":", "8">>

T_443 == <<"u", ":", "+", "4", "4", "3">>

T_url == <<"h", "t", "t", "p", "s", ":", "/", "/", "u">>

T_bare == <<"u">>

\* The command line without any TLS or upstream option (cli.rs defaults).
BaseCli ==
    [listen |-> L_local, target |-> T_up, include_bodies |-> FALSE,
     max_body_bytes |-> DefaultMaxBodyBytes, redact_header |-> DefaultRedactHeader,
     listen_tls_cert |-> None, listen_tls_key |-> None,
     insecure_upstream |-> FALSE, listen_self_signed |-> FALSE, tui |-> FALSE,
     upstream_ca |-> <<>>, upstream_client_cert |-> None,
     upstream_client_key |-> None, upstream_server_name |-> None,
     upstream_host |-> None]

Optional(S) == {None} \cup {Some(x) : x \in S}

ListenClis ==
    {[BaseCli EXCEPT !.listen_tls_cert = cert, !.listen_tls_key = key,
                     !.listen_self_signed = self_signed, !.tui = tui] :
        cert \in Optional(CertFiles), key \in Optional(KeyFiles),
        self_signed \in BOOLEAN, tui \in BOOLEAN}

UpstreamClis ==
    {[BaseCli EXCEPT !.insecure_upstream = insecure, !.upstream_ca = cas,
                     !.upstream_client_cert = cert, !.upstream_client_key = key,
                     !.upstream_server_name = name] :
        insecure \in BOOLEAN,
        cas \in {<<>>, <<F_missing>>, <<F_cert_bad>>, <<F_cert, F_cert_mixed>>,
                 <<F_missing, F_cert>>},
        cert \in Optional({F_missing, F_cert, F_cert_bad}),
        key \in Optional({F_missing, F_pkcs8, F_rsa, F_rsa_bad, F_key_unusable}),
        name \in Optional({V_host, A_space})}

TargetClis ==
    {[BaseCli EXCEPT !.listen = listen, !.target = target] :
        listen \in {L_local, L_name}, target \in {T_up, T_443, T_url, T_bare}}

Clis == ListenClis \cup UpstreamClis \cup TargetClis

(***************************************************************************)
(* Specifications                                                          *)
(***************************************************************************)
\* Repositories.  Commit 2 is the tip of main, commit 1 its parent; commit 3 is
\* a child of commit 1 that main does not contain; commit 4 is unrelated and
\* dated before 1970.
Commits ==
    (1 :> [ancestors |-> {}, time |-> 1]) @@
    (2 :> [ancestors |-> {1}, time |-> 2]) @@
    (3 :> [ancestors |-> {1}, time |-> 5]) @@
    (4 :> [ancestors |-> {}, time |-> -1])

MkBranch(name, tip) == [name |-> name, tip |-> tip]

B_main == MkBranch(S_main, 2)

B_a == MkBranch(<<"a">>, 1)

B_b == MkBranch(<<"b">>, 3)

B_c == MkBranch(<<"c">>, 2)

B_d == MkBranch(<<"d">>, 4)

Repos ==
    {MkRepo(Commits, {B_main, B_a, B_b, B_c}, Some(S_main), None),
     MkRepo(Commits, {B_main, B_a, B_b, B_d}, Some(<<"a">>), None),
     MkRepo(Commits, {B_main, B_a, B_b}, None, Some(S_main)),
     MkRepo(Commits, {B_main}, Some(S_main), None),
     MkRepo(Commits, {B_a, B_b}, Some(<<"b">>), None),
     MkRepo(Commits, {B_a, B_b}, None, Some(<<"x">>))}

BranchDeleteClis ==
    {[base |-> base, list_only |-> list_only, dry_run |-> dry_run] :
        base \in {None, Some(<<"b">>)}, list_only \in BOOLEAN, dry_run \in BOOLEAN}

KeyCodes == {"q", "Esc", "Down", "j", "Up", "k", " ", "a", "Enter", "x"}

\* SystemTime::now() when the App is made.
Nows == {3}

\* The whole process: the accept loop and up to MaxConns connection tasks, each
\* serving one request.
Init == InitWith(ProcConfigs)

Next ==
    \/ Accept(MaxConns)
    \/ AcceptErr
    \/ \E c \in Conns : TaskStart(c)
    \/ \E c \in Conns : TlsAcceptOk(c)
    \/ \E c \in Conns : TlsAcceptErr(c)
    \/ \E c \in Conns : ConnClose(c)
    \/ \E c \in Conns, req \in ProcRequests : HandleBegin(c, req, 1)
    \/ \E c \in Conns : WsUpstreamErr(c)
    \/ \E c \in Conns, status \in WsStatuses : WsUpstreamResp(c, Cert_public, status, R_ws)
    \/ \E c \in Conns, down_ok \in ServerUpgrades, up_ok \in BOOLEAN :
           TunnelRun(c, down_ok, up_ok)
    \/ \E c \in Conns : BodyErr(c)
    \/ \E c \in Conns : BodyOk(c, <<>>)
    \/ \E c \in Conns : UpstreamErr(c)
    \/ \E c \in Conns : UpstreamResp(c, Cert_public, 200, R_plain)
    \/ \E c \in Conns : RespBodyErr(c)
    \/ \E c \in Conns : RespBodyOk(c, <<"o", "k">>)
    \/ StatsRecv
    \/ TuiExit
    \/ ProcessExit

Spec == Init /\ [][Next]_vars

\* One plaintext connection serving up to MaxReqs requests, over every
\* configuration, request and upstream answer.
InitHandle == InitWith(Configs)

NextHandle ==
    \/ Accept(1)
    \/ \E c \in Conns : TaskStart(c)
    \/ \E c \in Conns : ConnClose(c)
    \/ \E c \in Conns, req \in Requests : HandleBegin(c, req, MaxReqs)
    \/ \E c \in Conns : WsUpstreamErr(c)
    \/ \E c \in Conns, status \in WsStatuses, headers \in ResponseHeaders :
           WsUpstreamResp(c, Cert_public, status, headers)
    \/ \E c \in Conns, down_ok \in ServerUpgrades, up_ok \in BOOLEAN :
           TunnelRun(c, down_ok, up_ok)
    \/ \E c \in Conns : BodyErr(c)
    \/ \E c \in Conns, req_bytes \in Bodies : BodyOk(c, req_bytes)
    \/ \E c \in Conns : UpstreamErr(c)
    \/ \E c \in Conns, status \in Statuses, headers \in ResponseHeaders :
           UpstreamResp(c, Cert_public, status, headers)
    \/ \E c \in Conns : RespBodyErr(c)
    \/ \E c \in Conns, resp_bytes \in Bodies : RespBodyOk(c, resp_bytes)

SpecHandle == InitHandle /\ [][NextHandle]_vars

\* One plaintext connection serving up to MaxReqs requests under every logging
\* option, with and without the dashboard.
InitLog == InitWith(LogConfigs)

NextLog ==
    \/ Accept(1)
    \/ \E c \in Conns : TaskStart(c)
    \/ \E c \in Conns : ConnClose(c)
    \/ \E c \in Conns, req \in LogRequests : HandleBegin(c, req, MaxReqs)
    \/ \E c \in Conns : WsUpstreamErr(c)
    \/ \E c \in Conns, status \in WsStatuses : WsUpstreamResp(c, Cert_public, status, R_ws)
    \/ \E c \in Conns, down_ok \in ServerUpgrades, up_ok \in BOOLEAN :
           TunnelRun(c, down_ok, up_ok)
    \/ \E c \in Conns : BodyErr(c)
    \/ \E c \in Conns, req_bytes \in LogBodies : BodyOk(c, req_bytes)
    \/ \E c \in Conns : UpstreamErr(c)
    \/ \E c \in Conns, headers \in {R_plain, R_hop} : UpstreamResp(c, Cert_public, 200, headers)
    \/ \E c \in Conns : RespBodyErr(c)
    \/ \E c \in Conns, resp_bytes \in LogBodies : RespBodyOk(c, resp_bytes)
    \/ StatsRecv
    \/ TuiExit
    \/ ProcessExit

SpecLog == InitLog /\ [][NextLog]_vars

\* The start of the process: main over every command line, up to the first
\* accepted connection.
InitStartup ==
    /\ main \in {[pc |-> "start", cli |-> cli, tls_acceptor |-> None,
                  warnings |-> <<>>, opened |-> <<>>, client |-> None] :
                    cli \in Clis}
    /\ cfg = None
    /\ listener = "none"
    /\ conn_seq = ConnSeqInit
    /\ conns = <<>>
    /\ stats_rx = [open |-> FALSE, pending |-> <<>>]
    /\ dashboard = NoTuiApp
    /\ NoBranchDelete

NextStartup ==
    \/ MainStart
    \/ MainConfig
    \/ RunProxyBind
    \/ RunProxyBindErr
    \/ RunProxyClient
    \/ Accept(1)

SpecStartup == InitStartup /\ [][NextStartup]_vars

\* One plaintext connection serving up to MaxReqs requests, over every way the
\* upstream is verified and every certificate it presents.
InitUpstreamTls == InitWith(UpstreamTlsConfigs)

NextUpstreamTls ==
    \/ Accept(1)
    \/ \E c \in Conns : TaskStart(c)
    \/ \E c \in Conns : ConnClose(c)
    \/ \E c \in Conns, req \in UpstreamTlsRequests : HandleBegin(c, req, MaxReqs)
    \/ \E c \in Conns : WsUpstreamErr(c)
    \/ \E c \in Conns, end_entity \in Certs : WsUpstreamTlsErr(c, end_entity)
    \/ \E c \in Conns, end_entity \in Certs, status \in WsStatuses :
           WsUpstreamResp(c, end_entity, status, R_ws)
    \/ \E c \in Conns, down_ok \in ServerUpgrades, up_ok \in BOOLEAN :
           TunnelRun(c, down_ok, up_ok)
    \/ \E c \in Conns : BodyErr(c)
    \/ \E c \in Conns : BodyOk(c, <<>>)
    \/ \E c \in Conns : UpstreamErr(c)
    \/ \E c \in Conns, end_entity \in Certs : UpstreamTlsErr(c, end_entity)
    \/ \E c \in Conns, end_entity \in Certs : UpstreamResp(c, end_entity, 200, R_plain)
    \/ \E c \in Conns : RespBodyErr(c)
    \/ \E c \in Conns : RespBodyOk(c, <<"o", "k">>)

SpecUpstreamTls == InitUpstreamTls /\ [][NextUpstreamTls]_vars

\* One plaintext connection taking up to MaxReqs requests around the upgrade
\* trigger, each up to the upstream's answer to its handshake or to its body.
InitUpgrade == InitWith({MkConfig("http", A_up, None, FALSE, FALSE)})

NextUpgrade ==
    \/ Accept(1)
    \/ \E c \in Conns : TaskStart(c)
    \/ \E c \in Conns, headers \in UpgradeHeaders :
           HandleBegin(c, ClientRequest("GET", U_origin, headers), MaxReqs)
    \/ \E c \in Conns : WsUpstreamErr(c)
    \/ \E c \in Conns, status \in WsStatuses :
           WsUpstreamResp(c, Cert_public, status, R_ws)
    \/ \E c \in Conns, down_ok \in ServerUpgrades, up_ok \in BOOLEAN :
           TunnelRun(c, down_ok, up_ok)
    \/ \E c \in Conns : BodyErr(c)
    \/ \E c \in Conns : BodyOk(c, <<>>)
    \/ \E c \in Conns : UpstreamErr(c)

SpecUpgrade == InitUpgrade /\ [][NextUpgrade]_vars

\* The tunnel task of proxy.rs:212-225 taken on its own, for up to MaxConns
\* connections each sending one upgrade: the two results of upgrade::on are
\* inputs here (a connection served with upgrades enabled hands its socket
\* over), and so is the result of the relay.
InitTunnel == InitWith({MkConfig("http", A_up, None, FALSE, FALSE)})

NextTunnel ==
    \/ Accept(MaxConns)
    \/ \E c \in Conns : TaskStart(c)
    \/ \E c \in Conns : HandleBegin(c, ClientRequest("GET", U_origin, H_ws), 1)
    \/ \E c \in Conns : WsUpstreamErr(c)
    \/ \E c \in Conns, status \in WsStatuses :
           WsUpstreamResp(c, Cert_public, status, R_ws)
    \/ \E c \in Conns, down_ok \in BOOLEAN, up_ok \in BOOLEAN :
           TunnelRun(c, down_ok, up_ok)
    \/ \E c \in Conns, result \in {"Ok", "Err"} : TunnelRelayEnd(c, result)

SpecTunnel == InitTunnel /\ [][NextTunnel]_vars

\* The dashboard on its own: events of two paths, the five counted methods and
\* another one, sent at two times, arrive in any order, up to MaxEvents of them
\* between two clearings of the table.
MaxEvents == 3

StatsEvents ==
    {[method |-> t[1], path |-> t[2], at |-> t[3]] :
        t \in {<<"GET", <<"/", "a">>, 1>>, <<"GET", <<"/", "a">>, 2>>,
               <<"POST", <<"/", "a">>, 1>>, <<"PUT", <<"/", "b">>, 2>>,
               <<"PATCH", <<"/", "b">>, 1>>, <<"DELETE", <<"/", "a">>, 2>>,
               <<"OPTIONS", <<"/", "b">>, 1>>, <<"get", <<"/", "b">>, 2>>}}

InitStats ==
    /\ cfg = MkConfig("http", A_up, None, FALSE, TRUE)
    /\ listener = "listening"
    /\ conn_seq = ConnSeqInit
    /\ conns = <<>>
    /\ stats_rx = [open |-> TRUE, pending |-> <<>>]
    /\ main = [pc |-> "run_tui"]
    /\ dashboard = TuiApp_new(TRUE)
    /\ NoBranchDelete

NextStats ==
    \/ \E ev \in StatsEvents : StatsSend(ev, MaxEvents)
    \/ StatsRecv
    \/ TuiClear
    \/ TuiExit

SpecStats == InitStats /\ [][NextStats]_vars

\* http-tap is not running.
NoHttpTap ==
    /\ cfg = None
    /\ listener = "none"
    /\ conn_seq = ConnSeqInit
    /\ conns = <<>>
    /\ stats_rx = [open |-> FALSE, pending |-> <<>>]
    /\ main = None
    /\ dashboard = NoTuiApp

\* interactive-branch-delete over every repository, command line and sequence
\* of keys.
InitBranchDelete ==
    /\ repo \in Repos
    /\ app = None
    /\ run \in {[pc |-> "start", cli |-> cli, base_branch |-> None, printed |-> "",
                  listed |-> <<>>, passed |-> None, results |-> <<>>] :
                    cli \in BranchDeleteClis}
    /\ NoHttpTap

NextBranchDelete ==
    \/ \E now \in Nows : RunStart(now)
    \/ \E code \in KeyCodes : Key(code)
    \/ TuiErr
    \/ \E failing \in SUBSET {B_a.name, B_b.name} : RunFinish(failing)

SpecBranchDelete == InitBranchDelete /\ [][NextBranchDelete]_vars

(***************************************************************************)
(* Properties                                                              *)
(***************************************************************************)
HopNames == {"connection", "proxy-connection", "keep-alive", "transfer-encoding",
             "upgrade", "te", "trailer"}

\* The connection's current request takes the forward path, not the tunnel path.
NonTunnel(c) ==
    conns[c].req.some /\ ~is_websocket_upgrade(conns[c].req.v.headers)

IsTunnel(c) ==
    conns[c].req.some /\ is_websocket_upgrade(conns[c].req.v.headers)

Returned(c) == conns[c].pc = "returned"

\* A response made by simple_response with one of the given statuses.
Synthesized(resp, statuses) ==
    /\ resp.status \in statuses
    /\ DOMAIN resp.headers = {"content-type"}
    /\ resp.headers["content-type"] = << S_text_plain >>
    /\ resp.body # <<>>

\* C1: every non-tunnel request whose handling finished got exactly one result
\* from handle, an Ok carrying either the upstream's response (its status, its
\* headers, its whole body) or one synthesized 400/502; before handle returns
\* nothing has been returned, and handle never returns an error.
C1_ExactlyOneResponse ==
    \A c \in Conns :
        NonTunnel(c) =>
            /\ ~Returned(c) => conns[c].returned = <<>>
            /\ Returned(c) =>
                 /\ Len(conns[c].returned) = 1
                 /\ conns[c].returned[1].ret = "Ok"
                 /\ LET r == conns[c].returned[1].resp
                    IN  \/ /\ conns[c].upstream.some
                           /\ conns[c].resp_bytes.some
                           /\ r.status = conns[c].upstream.v.status
                           /\ r.headers = conns[c].upstream.v.headers
                           /\ r.body = conns[c].resp_bytes.v
                        \/ /\ ~conns[c].resp_bytes.some
                           /\ Synthesized(r, {400, 502})

\* C1 witness: on one connection a request answered with a synthesized 400 was
\* followed by a request answered with the upstream's response.
C1_Witness ==
    \E c \in Conns :
        /\ NonTunnel(c) /\ Returned(c)
        /\ conns[c].prev = "body_error"
        /\ conns[c].outcome = "forwarded"
        /\ conns[c].returned[1].resp.body # <<>>

\* C2 as stated: no request handed to the upstream client, forwarded request or
\* upgrade handshake, carries any of the seven hop-by-hop headers.
C2_NoHopHeadersUpstream ==
    \A c \in Conns :
        \A i \in 1..Len(conns[c].dispatched) :
            DOMAIN conns[c].dispatched[i].headers \cap HopNames = {}

\* C2 amended: a forwarded (non-tunnel) request carries none of the seven
\* hop-by-hop headers; an upgrade handshake carries none of proxy-connection,
\* keep-alive, transfer-encoding, te, trailer, and carries connection and upgrade
\* each with the single value the client sent first.
C2_HopHeadersStripped ==
    \A c \in Conns :
        \A i \in 1..Len(conns[c].dispatched) :
            LET sent == conns[c].dispatched[i].headers
                got  == conns[c].req.v.headers
            IN  IF NonTunnel(c)
                THEN DOMAIN sent \cap HopNames = {}
                ELSE /\ DOMAIN sent \cap (HopNames \ {"connection", "upgrade"}) = {}
                     /\ sent["connection"] = << got["connection"][1] >>
                     /\ sent["upgrade"] = << got["upgrade"][1] >>

\* C2 witness: a forwarded request whose client sent all seven hop-by-hop headers.
C2_Witness ==
    \E c \in Conns :
        /\ NonTunnel(c)
        /\ HopNames \subseteq DOMAIN conns[c].req.v.headers
        /\ Len(conns[c].dispatched) = 1
        /\ "x-a" \in DOMAIN conns[c].dispatched[1].headers

\* C3 as stated: the response returned for a forwarded request carries none of
\* the seven hop-by-hop headers.
C3_NoHopHeadersDownstream ==
    \A c \in Conns :
        (NonTunnel(c) /\ Returned(c)) =>
            \A i \in 1..Len(conns[c].returned) :
                conns[c].returned[i].ret = "Ok" =>
                    DOMAIN conns[c].returned[i].resp.headers \cap HopNames = {}

\* C4 as stated: the Host sent upstream is the single value upstream_host when
\* set, else target_authority, whatever the string.
C4_HostIsOverrideOrAuthority ==
    \A c \in Conns :
        \A i \in 1..Len(conns[c].dispatched) :
            /\ "host" \in DOMAIN conns[c].dispatched[i].headers
            /\ conns[c].dispatched[i].headers["host"] =
                   << IF cfg.upstream_host.some
                      THEN cfg.upstream_host.v
                      ELSE cfg.target_authority >>

\* C4 amended: the Host sent upstream is a single value: upstream_host when set,
\* else target_authority, provided that string is a legal header value (no
\* control byte other than tab, no DEL); otherwise it is "localhost".
C4_HostOrLocalhost ==
    \A c \in Conns :
        \A i \in 1..Len(conns[c].dispatched) :
            LET wanted == IF cfg.upstream_host.some
                          THEN cfg.upstream_host.v
                          ELSE cfg.target_authority
                legal  == \A k \in 1..Len(wanted) : wanted[k] \notin {"\n", "DEL"}
            IN  /\ "host" \in DOMAIN conns[c].dispatched[i].headers
                /\ conns[c].dispatched[i].headers["host"] =
                       << IF legal
                          THEN wanted
                          ELSE <<"l", "o", "c", "a", "l", "h", "o", "s", "t">> >>

\* C4 witness: an override is set and the client sent two other Host values.
C4_Witness ==
    \E c \in Conns :
        /\ cfg.upstream_host = Some(V_host)
        /\ Len(conns[c].dispatched) = 1
        /\ Len(conns[c].req.v.headers["host"]) = 2
        /\ conns[c].dispatched[1].headers["host"] = << V_host >>

PlainAuthority(a) ==
    /\ a # <<>>
    /\ \A k \in 1..Len(a) : a[k] \notin {"/", "?", "#", " ", "\t", "\n", "DEL", "OBS"}
    /\ Cardinality({k \in 1..Len(a) : a[k] = ":"}) <= 1

\* The inbound URI is in origin-form or absolute-form.
PathForm(uri) ==
    /\ uri.scheme # "" \/ uri.authority = <<>>
    /\ uri.pq = <<>> \/ uri.pq[1] \in {"/", "?"}

C6_IdsDistinct ==
    \A a, b \in Conns :
        (a # b /\ conns[a].conn_id.some /\ conns[b].conn_id.some) =>
            conns[a].conn_id.v # conns[b].conn_id.v

\* C6 witness: two connections hold ids while both their handlers are running.
C6_Witness ==
    \E a, b \in Conns :
        /\ a # b
        /\ conns[a].phase = "handling" /\ conns[b].phase = "handling"
        /\ conns[a].conn_id.some /\ conns[b].conn_id.some

\* C7 as stated: a connection accepted earlier has the smaller id.
C7_IdsFollowAcceptOrder ==
    \A a, b \in Conns :
        (a < b /\ conns[a].conn_id.some /\ conns[b].conn_id.some) =>
            conns[a].conn_id.v < conns[b].conn_id.v

\* C8: an upgrade request the upstream answered with a status other than 101 has
\* been answered with one synthesized 502 and no tunnel task exists for it.
C8_NoTunnelWithout101 ==
    \A c \in Conns :
        (IsTunnel(c) /\ conns[c].upstream.some
            /\ conns[c].upstream.v.status # 101) =>
                /\ Returned(c)
                /\ Len(conns[c].returned) = 1
                /\ conns[c].returned[1].ret = "Ok"
                /\ Synthesized(conns[c].returned[1].resp, {502})
                /\ conns[c].tunnel = "none"

\* C8 witness: an upgrade request was answered 200 by the upstream.
C8_Witness ==
    \E c \in Conns :
        /\ IsTunnel(c) /\ Returned(c)
        /\ conns[c].upstream.some
        /\ conns[c].upstream.v.status = 200
        /\ conns[c].upstream.v.headers = R_ws

\* C9 as stated: an upgrade answered 101 is answered 101 to the client with the
\* upstream's headers and an empty body, and the byte relay is then started: the
\* tunnel task never ends without relaying.
C9_RelayAfter101 ==
    \A c \in Conns :
        conns[c].outcome = "ws_switched" =>
            /\ conns[c].returned =
                   << [ret |-> "Ok",
                       resp |-> [status |-> 101,
                                 headers |-> conns[c].upstream.v.headers,
                                 body |-> <<>>]] >>
            /\ conns[c].tunnel \in {"spawned", "relaying"}

\* C10: handle answers an upstream connect failure by returning Ok with a
\* synthesized 502 (plain text, non-empty body), which leaves the connection
\* waiting for its next request; and the request that follows on the connection
\* is dispatched once with its whole body and, when the upstream answers, gets
\* the upstream's response.
C10_FailureKeepsServing ==
    /\ [][\A c \in Conns :
             (conns[c].pc = "upstream" /\ conns'[c].outcome = "upstream_failed") =>
                 /\ conns'[c].phase = "idle"
                 /\ Len(conns'[c].returned) = 1
                 /\ conns'[c].returned[1].ret = "Ok"
                 /\ Synthesized(conns'[c].returned[1].resp, {502})]_vars
    /\ [](\A c \in Conns :
             (conns[c].prev = "upstream_failed" /\ NonTunnel(c)) =>
                 /\ conns[c].req_bytes.some =>
                        /\ Len(conns[c].dispatched) = 1
                        /\ conns[c].dispatched[1].body = conns[c].req_bytes.v
                 /\ conns[c].resp_bytes.some =>
                        conns[c].returned =
                            << [ret |-> "Ok",
                                resp |-> [status |-> conns[c].upstream.v.status,
                                          headers |-> conns[c].upstream.v.headers,
                                          body |-> conns[c].resp_bytes.v]] >>)

\* C10 witness: after a request that failed to reach the upstream, the next
\* request on the same connection was answered with the upstream's 200.
C10_Witness ==
    \E c \in Conns :
        /\ conns[c].prev = "upstream_failed"
        /\ conns[c].outcome = "forwarded"
        /\ conns[c].returned[1].resp.status = 200
        /\ conns[c].returned[1].resp.body = <<"o", "k">>

\* The trace of the connection's current request holds the stderr line `what`.
Logged(conn, what) ==
    \E i \in 1..Len(conn.trace) : conn.trace[i] = eprintln(what)

Result(conn) == conn.returned[1]

\* C12: the status of a synthesized response is decided by the kind of failure:
\* 400 when the client's body cannot be read; 502 when the upstream cannot be
\* reached, when its body cannot be read, when the upgrade handshake cannot be
\* sent, and when the handshake is answered with a status other than 101.
\* Each of them is plain text with a non-empty body, and a response that is
\* not the upstream's own (its forwarded response, or its 101 with its headers)
\* is one of these.
C12_StatusByFailure ==
    /\ [][\A c \in Conns :
             (conns[c].pc # "returned" /\ conns'[c].pc = "returned") =>
                 /\ Len(conns'[c].returned) = 1
                 /\ Result(conns'[c]).ret = "Ok"
                 /\ (conns[c].pc = "body" /\ ~conns'[c].req_bytes.some) =>
                        Synthesized(Result(conns'[c]).resp, {400})
                 /\ conns[c].pc = "upstream" =>
                        Synthesized(Result(conns'[c]).resp, {502})
                 /\ (conns[c].pc = "resp_body" /\ ~conns'[c].resp_bytes.some) =>
                        Synthesized(Result(conns'[c]).resp, {502})
                 /\ (conns[c].pc = "ws_upstream" /\ ~conns'[c].upstream.some) =>
                        Synthesized(Result(conns'[c]).resp, {502})
                 /\ (/\ conns[c].pc = "ws_upstream"
                     /\ conns'[c].upstream.some
                     /\ conns'[c].upstream.v.status # 101) =>
                        Synthesized(Result(conns'[c]).resp, {502})]_vars
    /\ [](\A c \in Conns :
             Returned(c) =>
                 \/ /\ conns[c].resp_bytes.some
                    /\ Result(conns[c]).resp =
                           [status |-> conns[c].upstream.v.status,
                            headers |-> conns[c].upstream.v.headers,
                            body |-> conns[c].resp_bytes.v]
                 \/ /\ IsTunnel(c)
                    /\ conns[c].upstream.some
                    /\ conns[c].upstream.v.status = 101
                    /\ Result(conns[c]).resp =
                           [status |-> 101,
                            headers |-> conns[c].upstream.v.headers,
                            body |-> <<>>]
                 \/ Synthesized(Result(conns[c]).resp, {400, 502}))

\* C12 witness: on one connection a request whose body could not be read got
\* 400, and the upgrade request after it, answered 200 by the upstream, got 502.
C12_Witness ==
    \E c \in Conns :
        /\ conns[c].prev = "body_error"
        /\ IsTunnel(c) /\ Returned(c)
        /\ conns[c].upstream.some
        /\ conns[c].upstream.v.status = 200
        /\ Result(conns[c]).resp.status = 502

\* The blocks log_request and log_response printed for the current request.
LogBlocks(conn, kind) ==
    {i \in 1..Len(conn.trace) : conn.trace[i].kind = kind}

\* The header name equals an entry of redact_header, ASCII case ignored.
NameRedacted(name) ==
    \E i \in 1..Len(cfg.redact_header) :
        [j \in 1..Len(cfg.redact_header[i]) |->
            to_ascii_lowercase(cfg.redact_header[i][j])] = HeaderName_as_str(name)

\* The lines a block prints for the header, all showing the redaction marker
\* and none showing one of the header's values.
LinesRedacted(block, name, values) ==
    /\ \E k \in 1..Len(block.headers) : block.headers[k].name = name
    /\ \A k \in 1..Len(block.headers) :
           block.headers[k].name = name =>
               /\ block.headers[k].display = S_redacted
               /\ \A v \in 1..Len(values) : block.headers[k].display # values[v]

\* C13: a header whose name matches redact_header, whatever the letter case, is
\* printed with the redaction marker in place of its value, in the request
\* block and in the response block; the request dispatched upstream carries
\* the header with the values the client sent (Host apart, which the proxy
\* sets itself), and the response returned to the client carries it with the
\* values the upstream sent.
C13_RedactionOnlyInLogs ==
    \A c \in Conns :
        /\ \A i \in LogBlocks(conns[c], "REQUEST") :
               /\ Len(conns[c].dispatched) = 1
               /\ \A n \in DOMAIN conns[c].dispatched[1].headers :
                      NameRedacted(n) =>
                          /\ LinesRedacted(conns[c].trace[i], n,
                                           conns[c].dispatched[1].headers[n])
                          /\ n # "host" =>
                                 conns[c].dispatched[1].headers[n] =
                                     conns[c].req.v.headers[n]
        /\ \A i \in LogBlocks(conns[c], "RESPONSE") :
               /\ Returned(c)
               /\ \A n \in DOMAIN conns[c].upstream.v.headers :
                      NameRedacted(n) =>
                          /\ LinesRedacted(conns[c].trace[i], n,
                                           conns[c].upstream.v.headers[n])
                          /\ Result(conns[c]).resp.headers[n] =
                                 conns[c].upstream.v.headers[n]

\* C13 witness: with the list Authorization, SET-Cookie, X-O a request carrying
\* authorization and an upstream answer carrying set-cookie were both logged.
C13_Witness ==
    \E c \in Conns :
        /\ cfg.redact_header = RedactMixedCase
        /\ LogBlocks(conns[c], "REQUEST") # {}
        /\ LogBlocks(conns[c], "RESPONSE") # {}
        /\ "authorization" \in DOMAIN conns[c].dispatched[1].headers
        /\ "set-cookie" \in DOMAIN Result(conns[c]).resp.headers

\* The body a block previews: the request's for log_request, the upstream
\* response's for log_response.
PreviewedBody(conn, block) ==
    IF block.kind = "REQUEST" THEN conn.req_bytes.v ELSE conn.resp_bytes.v

\* C14 as stated: whenever a block previews a body longer than max_body_bytes,
\* the preview is the first max_body_bytes bytes (decoded as text) followed by
\* the truncation marker; and the whole body is forwarded: upstream for a
\* request, to the client for a response.
C14_PreviewIsTruncatedPrefix ==
    \A c \in Conns :
        \A i \in LogBlocks(conns[c], "REQUEST") \cup LogBlocks(conns[c], "RESPONSE") :
            LET block == conns[c].trace[i]
                body == PreviewedBody(conns[c], block)
            IN  /\ (block.body.some /\ Len(body) > cfg.max_body_bytes) =>
                       /\ block.body.v.form = "truncated"
                       /\ block.body.v.printable =
                              from_utf8_lossy(SubSeq(body, 1, cfg.max_body_bytes))
                /\ block.kind = "REQUEST" => conns[c].dispatched[1].body = body
                /\ block.kind = "RESPONSE" => Result(conns[c]).resp.body = body

\* The stats events handle sent, or tried to send, for the current request.
StatsSends(conn) == LogBlocks(conn, "stats")

\* The request has been handed to the upstream client on the forward path.
Forwarded(c) == NonTunnel(c) /\ conns[c].dispatched # <<>>

\* The path of the request target, "/" when it has none.
RequestPath(req) == IF Uri_path(req.uri) = <<>> THEN <<"/">> ELSE Uri_path(req.uri)

\* The path and query of the request target as received, "/" when it has none.
RequestPathAndQuery(req) ==
    IF Uri_path_and_query(req.uri) = None \/ req.uri.pq = <<>>
    THEN <<"/">> ELSE req.uri.pq

SendFailed(conn) == \E i \in StatsSends(conn) : conn.trace[i].result = "Err"

\* C16: a request whose stats event could not be sent, the receiver being
\* gone, is handled as any other: it is dispatched once with its method and
\* whole body, handle returns Ok with the upstream's response or, when the
\* upstream fails, a synthesized 502, and the connection is left waiting for
\* its next request.
C16_SendFailureIgnored ==
    /\ [](\A c \in Conns :
             SendFailed(conns[c]) =>
                 /\ Len(conns[c].dispatched) = 1
                 /\ conns[c].dispatched[1].method = conns[c].req.v.method
                 /\ conns[c].dispatched[1].body = conns[c].req_bytes.v
                 /\ Returned(c) =>
                        /\ Len(conns[c].returned) = 1
                        /\ Result(conns[c]).ret = "Ok"
                        /\ conns[c].resp_bytes.some =>
                               Result(conns[c]).resp =
                                   [status |-> conns[c].upstream.v.status,
                                    headers |-> conns[c].upstream.v.headers,
                                    body |-> conns[c].resp_bytes.v]
                        /\ ~conns[c].resp_bytes.some =>
                               Synthesized(Result(conns[c]).resp, {502}))
    /\ [][\A c \in Conns :
             (/\ SendFailed(conns'[c])
              /\ conns[c].pc # "returned"
              /\ conns'[c].pc = "returned") => conns'[c].phase = "idle"]_vars

\* C16 witness: the dashboard has gone, and the second request of a connection,
\* whose event could not be sent, was answered with the upstream's 200.
C16_Witness ==
    \E c \in Conns :
        /\ ~stats_rx.open
        /\ conns[c].served = 2
        /\ SendFailed(conns[c])
        /\ conns[c].outcome = "forwarded"
        /\ Result(conns[c]).resp.status = 200

\* C17 as stated: a failed accept and a failed TLS handshake are logged and
\* cost that connection only: the accept loop is running in every reachable
\* state, and a connection whose handshake failed has its error line.
C17_AcceptLoopSurvivesFailures ==
    /\ listener = "listening"
    /\ \A c \in Conns :
           conns[c].phase = "tls_failed" => Logged(conns[c], "TLS accept error")

\* Inbound TLS is requested: a listen certificate or a listen key is given.
TlsRequested(cli) == cli.listen_tls_cert.some \/ cli.listen_tls_key.some

\* Some item read from the file is an error.
FailsToParse(items) == \E i \in 1..Len(items) : items[i] = "bad"

\* The certificate or the key is not given, cannot be opened, holds no
\* certificate or no private key, or does not parse.
TlsMaterialFaulty(cli) ==
    IF ~cli.listen_tls_cert.some \/ ~cli.listen_tls_key.some THEN TRUE
    ELSE LET cert == cli.listen_tls_cert.v
             key == cli.listen_tls_key.v
         IN  \/ ~cert.open \/ ~key.open
             \/ cert.certs = <<>> \/ FailsToParse(cert.certs)
             \/ FailsToParse(key.pkcs8_private_keys)
             \/ /\ key.pkcs8_private_keys = <<>>
                /\ key.rsa_private_keys = <<>> \/ FailsToParse(key.rsa_private_keys)

\* C18: when inbound TLS is requested and its certificate or key is missing,
\* unreadable, empty of certificates or keys, or unparseable, main stops with
\* the error at the acceptor: no Config is built, run_proxy is not entered, no
\* listener is bound and no connection is accepted.
C18_TlsFailureIsFatal ==
    (TlsRequested(main.cli) /\ TlsMaterialFaulty(main.cli)) =>
        /\ main.pc \in {"start", "failed"}
        /\ ~main.tls_acceptor.some
        /\ cfg = None
        /\ listener = "none"
        /\ conns = <<>>

\* C18 witness: main has failed on a certificate that parses and a key file
\* whose RSA section does not.
C18_Witness ==
    /\ main.pc = "failed"
    /\ main.cli.listen_tls_cert = Some(F_cert)
    /\ main.cli.listen_tls_key = Some(F_rsa_bad)

\* C19 as stated: with --listen-self-signed the listener, once it accepts
\* connections, terminates TLS.
C19_SelfSignedServesHttps ==
    (main.cli.listen_self_signed /\ listener = "listening") => cfg.tls

\* An extra CA file that cannot be opened or has a section that does not parse.
CaDegraded(file) == ~file.open \/ FailsToParse(file.certs)

\* The warnings printed about the extra CA files.
CaWarnings == {i \in 1..Len(main.warnings) : main.warnings[i].what = W_ca_unopenable}

\* The client certificate or key that cannot be opened or read.
ClientMaterialDegraded(config) ==
    /\ config.upstream_client_cert.some /\ config.upstream_client_key.some
    /\ \/ client_chain(config.upstream_client_cert.v) = <<>>
       \/ ~client_key(config.upstream_client_key.v).some

\* C20 as stated: with certificate verification on and a usable server name,
\* once run_proxy listens the client is built, every extra CA file that could
\* not be opened or parsed has its warning, and an unusable client
\* certificate or key has its warning and leaves the client without client
\* authentication.
C20_DegradedMaterialWarned ==
    (/\ listener = "listening"
     /\ ~cfg.insecure_upstream
     /\ server_name(cfg).ok) =>
        /\ main.client.some
        /\ Cardinality(CaWarnings) =
               Cardinality({i \in 1..Len(cfg.upstream_ca) : CaDegraded(cfg.upstream_ca[i])})
        /\ ClientMaterialDegraded(cfg) =>
               /\ Len(main.warnings) > Cardinality(CaWarnings)
               /\ ~main.client.v.client_auth

\* The upstream's certificate was looked at for the connection's current request.
Presented(c, certs) ==
    conns[c].peer_cert.some /\ conns[c].peer_cert.v.end_entity \in certs

\* No root of the connector's store matches the certificate: it is self-signed,
\* or its CA is in none of the extra CA files that could be read.
NoMatchingRoot(end_entity) ==
    \/ end_entity.issuer = "self"
    \/ /\ end_entity.issuer = "extra"
       /\ \A i \in 1..Len(cfg.upstream_ca) :
              ~cfg.upstream_ca[i].open \/ cfg.upstream_ca[i].certs = <<>>

\* C21: with insecure_upstream set, whatever certificate the upstream presents
\* (self-signed, expired, for another name) is accepted, and once the upstream's
\* response is in, it is what the handler returns; with insecure_upstream unset
\* and no root matching the certificate, the request is answered with one
\* synthesized 502 and nothing of the upstream's.
C21_InsecureAcceptsStrictRejects ==
    \A c \in Conns :
        /\ (cfg.insecure_upstream /\ Presented(c, Certs)) =>
               /\ conns[c].peer_cert.v.verified
               /\ conns[c].outcome \notin {"upstream_failed", "ws_handshake_failed"}
               /\ conns[c].resp_bytes.some =>
                      conns[c].returned =
                          << ReturnOk([status |-> conns[c].upstream.v.status,
                                       headers |-> conns[c].upstream.v.headers,
                                       body |-> conns[c].resp_bytes.v]) >>
        /\ (~cfg.insecure_upstream
              /\ Presented(c, {e \in Certs : NoMatchingRoot(e)})) =>
               /\ Returned(c)
               /\ ~conns[c].upstream.some
               /\ Len(conns[c].returned) = 1
               /\ conns[c].returned[1].ret = "Ok"
               /\ Synthesized(conns[c].returned[1].resp, {502})

\* C21 witness: a verifying proxy whose extra CA file could not be read answered
\* 502 to a request whose upstream presented a certificate of that CA, after a
\* request that failed to reach the upstream.
C21_Witness ==
    \E c \in Conns :
        /\ ~cfg.insecure_upstream
        /\ cfg.upstream_ca = <<F_missing>>
        /\ conns[c].prev = "upstream_failed"
        /\ Presented(c, {Cert_private})
        /\ conns[c].returned = <<on_upstream_error>>

\* The outcomes of handle that follow a failure of the upstream.
UpstreamFailures ==
    {"upstream_failed", "resp_body_error", "ws_handshake_failed", "ws_not_switched"}

\* The hand-overs to the upstream client the request's log shows.
Dispatches(conn) == {i \in 1..Len(conn.trace) : conn.trace[i].kind = "dispatch"}

\* C22: a request, forwarded or upgrade, is handed to the upstream client at most
\* once; the step in which an upstream failure shows returns one synthesized 502
\* and prints the error without handing the request over again; and nothing is
\* handed over for a request once handle has returned.
C22_NoRetries ==
    /\ [](\A c \in Conns :
             /\ Len(conns[c].dispatched) <= 1
             /\ Cardinality(Dispatches(conns[c])) <= 1)
    /\ [][\A c \in Conns :
             (conns[c].pc \in {"upstream", "resp_body", "ws_upstream"}
                /\ conns'[c].outcome \in UpstreamFailures) =>
                 /\ conns'[c].pc = "returned"
                 /\ conns'[c].dispatched = conns[c].dispatched
                 /\ Len(conns'[c].returned) = 1
                 /\ Synthesized(conns'[c].returned[1].resp, {502})
                 /\ conns'[c].trace[Len(conns'[c].trace)].kind = "eprintln"]_vars
    /\ [][\A c \in Conns :
             (conns[c].pc = "returned" /\ conns'[c].served = conns[c].served) =>
                 conns'[c].dispatched = conns[c].dispatched]_vars

\* C22 witness: the second request of a connection failed at the upstream as its
\* first had, and was handed over once.
C22_Witness ==
    \E c \in Conns :
        /\ conns[c].prev \in UpstreamFailures
        /\ conns[c].outcome = "upstream_failed"
        /\ Len(conns[c].dispatched) = 1
        /\ conns[c].phase = "idle"

\* C23: whatever the connections accepted so far are doing (waiting in the inbound
\* TLS handshake, in a body read, for the upstream, or as a tunnel task), a
\* listening proxy can accept the next connection, and every connection can take
\* its own next step: start serving, and move on from each await of handle (the
\* body read can end, the upstream can answer, the response body can arrive).
C23_AcceptNeverWaits ==
    /\ (listener = "listening" /\ Len(conns) < MaxConns) => ENABLED Accept(MaxConns)
    /\ ProcessAlive =>
          \A c \in Conns :
              /\ conns[c].phase = "spawned" => ENABLED (TaskStart(c) \/ TlsAcceptOk(c))
              /\ conns[c].pc = "body" => ENABLED (BodyErr(c) \/ BodyOk(c, <<>>))
              /\ conns[c].pc = "upstream" =>
                     ENABLED UpstreamResp(c, Cert_public, 200, R_plain)
              /\ conns[c].pc = "resp_body" => ENABLED RespBodyOk(c, <<"o", "k">>)
              /\ conns[c].pc = "ws_upstream" =>
                     ENABLED WsUpstreamResp(c, Cert_public, 101, R_ws)

\* C23 witness: the first connection is still in its inbound TLS handshake while
\* the second, accepted after it, has been answered with the upstream's response.
C23_Witness ==
    /\ Len(conns) = 2
    /\ cfg.tls
    /\ conns[1].phase = "spawned"
    /\ conns[2].outcome = "forwarded"
    /\ conns[2].pc = "returned"

\* The UI of interactive-branch-delete is up and reading keys.
UiRunning == run # None /\ run.pc = "tui" /\ ~app.should_quit

\* C24: delete_branches is called, and the repository changes, only in a step
\* taken after a confirmation with at least one branch selected, and the list
\* passed is the selection of that moment; only Enter confirms, and only with a
\* selection, after which no key is read any more; q and Esc end the UI
\* unconfirmed, and an unconfirmed end deletes nothing; Enter with nothing
\* selected only sets the message and leaves the UI running.
C24_DeleteOnlyAfterConfirm ==
    /\ [][(run # None /\ (repo' # repo \/ run'.passed # run.passed)) =>
             /\ run.pc = "tui"
             /\ app.confirmed
             /\ App_selected_count(app) >= 1
             /\ run'.passed = Some(App_selected_branch_infos(app))]_vars
    /\ [][(UiRunning /\ app'.confirmed) =>
             /\ App_selected_count(app) >= 1
             /\ app' = [app EXCEPT !.confirmed = TRUE, !.should_quit = TRUE]]_vars
    /\ [][(app # None /\ app.should_quit) => app' = app]_vars
    /\ [][(run # None /\ run.pc = "tui" /\ app.should_quit /\ ~app.confirmed) =>
             (repo' = repo /\ run'.passed = None)]_vars
    /\ [](UiRunning =>
             /\ \A code \in KeyCodes \ {"Enter"} :
                    ~handle_key_event(app, code).confirmed
             /\ \A code \in {"q", "Esc"} : handle_key_event(app, code).should_quit
             /\ App_selected_count(app) = 0 =>
                    handle_key_event(app, "Enter") =
                        [app EXCEPT !.message = Some(Msg_select_first)])

\* C24 witness: two branches were selected and confirmed, and both are gone from
\* the repository.
C24_Witness ==
    /\ run # None /\ run.pc = "done"
    /\ run.passed.some /\ Len(run.passed.v) = 2
    /\ \A i \in 1..Len(run.results) : run.results[i].status = "Deleted"
    /\ \A i \in 1..Len(run.passed.v) : run.passed.v[i].name \notin branch_names(repo)

\* One DryRun result for each branch of the list, in the order of the list.
DryRunResults(branches) ==
    [i \in 1..Len(branches) |-> [name |-> branches[i].name, status |-> "DryRun"]]

\* C25: with --dry-run no step changes the repository; the step that calls
\* delete_branches records one DryRun result for each branch passed, in the
\* order passed; and for whatever is selected in the UI, delete_branches
\* returns those results and the repository as it was.
C25_DryRunDeletesNothing ==
    /\ [][(run # None /\ run.cli.dry_run) => repo' = repo]_vars
    /\ [][(run # None /\ run.cli.dry_run /\ run'.passed # run.passed) =>
             /\ run'.passed.some
             /\ run'.results = DryRunResults(run'.passed.v)]_vars
    /\ [](UiRunning =>
             \A failing \in SUBSET branch_names(repo) :
                 delete_branches(repo, App_selected_branch_infos(app), TRUE, failing) =
                     [results |-> DryRunResults(App_selected_branch_infos(app)),
                      repo |-> repo])

\* C25 witness: a dry run ended with two branches confirmed; both are reported
\* and both are still in the repository.
C25_Witness ==
    /\ run # None /\ run.pc = "done" /\ run.cli.dry_run
    /\ run.passed.some /\ Len(run.passed.v) = 2
    /\ Len(run.results) = 2
    /\ \A i \in 1..2 : /\ run.results[i].name = run.passed.v[i].name
                        /\ run.results[i].name \in branch_names(repo)

\* C26 as stated: with --list-only every branch listed is merged into the base
\* branch, the UI is never entered and nothing is passed to delete_branches.
C26_ListOnlyListsMerged ==
    (run # None /\ run.cli.list_only) =>
        /\ \A i \in 1..Len(run.listed) : run.listed[i].merged
        /\ app = None
        /\ run.pc # "tui"
        /\ run.passed = None

\* handle took the tunnel path for the connection's current request.
TookTunnelPath(c) ==
    \/ conns[c].pc = "ws_upstream"
    \/ conns[c].outcome \in {"ws_handshake_failed", "ws_not_switched", "ws_switched"}

\* The request has an Upgrade header equal to "websocket" ignoring case and a
\* Connection header with a token "upgrade" ignoring case.
AsksForWebSocket(headers) ==
    /\ "upgrade" \in DOMAIN headers
    /\ \E i \in 1..Len(headers["upgrade"]) :
           eq_ignore_ascii_case(headers["upgrade"][i], S_websocket)
    /\ "connection" \in DOMAIN headers
    /\ \E i \in 1..Len(headers["connection"]) :
           \E k \in 1..Len(split(headers["connection"][i], ",")) :
               eq_ignore_ascii_case(trim(split(headers["connection"][i], ",")[k]),
                                    S_upgrade)

\* C27 as stated: a request takes the tunnel path exactly when it has an Upgrade
\* header equal to "websocket" ignoring case and a Connection header one of
\* whose comma-separated, trimmed tokens equals "upgrade" ignoring case; every
\* other request takes the forward path.
C27_TunnelIffUpgradeRequested ==
    \A c \in Conns :
        conns[c].req.some =>
            (TookTunnelPath(c) <=> AsksForWebSocket(conns[c].req.v.headers))

\* The six headers of a WebSocket handshake the proxy is to pass on.
WsHandshakeNames ==
    {"connection", "upgrade", "sec-websocket-key", "sec-websocket-version",
     "sec-websocket-protocol", "sec-websocket-extensions"}

\* C28 as stated: the handshake request of an upgrade has an empty body, the
\* rewritten URI and the Host value of the forward path, and each of the six
\* WebSocket handshake headers carries exactly the values the client sent, a
\* header the client did not send being absent.
C28_HandshakeCarriesClientValues ==
    \A c \in Conns :
        TookTunnelPath(c) =>
            LET sent == conns[c].dispatched[1]
                got  == conns[c].req.v
                fwd  == forward_request(got, <<>>, cfg)
            IN  /\ Len(conns[c].dispatched) = 1
                /\ sent.body = <<>>
                /\ sent.uri = fwd.uri
                /\ sent.headers["host"] = fwd.headers["host"]
                /\ \A n \in WsHandshakeNames :
                       IF n \in DOMAIN got.headers
                       THEN n \in DOMAIN sent.headers
                            /\ sent.headers[n] = got.headers[n]
                       ELSE n \notin DOMAIN sent.headers

\* handle has returned the 101 of the connection's upgrade.
Returned101(c) ==
    /\ conns[c].outcome = "ws_switched"
    /\ Len(conns[c].returned) = 1
    /\ conns[c].returned[1].ret = "Ok"
    /\ conns[c].returned[1].resp.status = SWITCHING_PROTOCOLS

\* C29 as stated: for an upgrade answered 101 the byte relay runs in the spawned
\* tunnel task and starts only after handle has returned the 101: the step by
\* which the spawned task leaves its two awaits starts the relay, with the 101
\* already returned.
C29_RelayRunsAfterReturn ==
    [][\A c \in Conns :
          (conns[c].tunnel = "spawned" /\ conns'[c].tunnel # "spawned") =>
              /\ Returned101(c)
              /\ conns'[c].tunnel = "relaying"]_vars

Kinds(c) == [i \in 1..Len(conns[c].trace) |-> conns[c].trace[i].kind]

\* What a forwarded request leaves in the trace up to its dispatch.
UpToDispatch ==
    <<"REQUEST">> \o (IF cfg.stats THEN <<"stats">> ELSE <<>>) \o <<"dispatch">>

\* C31: a forwarded non-tunnel request goes through its steps in the order
\* request-body read, request log block, stats event (if configured), upstream
\* dispatch, response-body read, response log block, return; the request block
\* is printed before the dispatch and so is there when the dispatch fails.
C31_StepsInOrder ==
    \A c \in Conns :
        NonTunnel(c) =>
            /\ conns[c].pc = "body" =>
                   /\ conns[c].trace = <<>>
                   /\ ~conns[c].req_bytes.some
            /\ conns[c].pc \in {"upstream", "resp_body"} =>
                   /\ conns[c].req_bytes.some
                   /\ ~conns[c].resp_bytes.some
                   /\ Kinds(c) = UpToDispatch
                   /\ conns[c].trace[1].body = log_body(cfg, conns[c].req_bytes.v)
                   /\ conns[c].returned = <<>>
            /\ conns[c].outcome \in {"upstream_failed", "resp_body_error"} =>
                   /\ Kinds(c) = UpToDispatch \o <<"eprintln">>
                   /\ Len(conns[c].returned) = 1
            /\ conns[c].outcome = "forwarded" =>
                   /\ conns[c].req_bytes.some
                   /\ conns[c].resp_bytes.some
                   /\ Kinds(c) = UpToDispatch \o <<"RESPONSE">>
                   /\ conns[c].trace[Len(conns[c].trace)].body =
                          log_body(cfg, conns[c].resp_bytes.v)
                   /\ Len(conns[c].returned) = 1
                   /\ conns[c].returned[1].resp.body = conns[c].resp_bytes.v

\* C31 witness: with the dashboard and body logging on, one request was
\* forwarded and answered, and another one was logged and then failed at the
\* dispatch.
C31_Witness ==
    \E c \in Conns :
        /\ cfg.stats /\ cfg.include_bodies
        /\ NonTunnel(c)
        /\ conns[c].prev = "forwarded"
        /\ conns[c].outcome = "upstream_failed"
        /\ conns[c].req_bytes.v # <<>>
        /\ Kinds(c) = <<"REQUEST", "stats", "dispatch", "eprintln">>

\* The number of entries of the connection's trace whose kind is in `kinds`.
CountKinds(c, kinds) ==
    Cardinality({i \in 1..Len(conns[c].trace) : conns[c].trace[i].kind \in kinds})

\* C32 as stated: every non-tunnel request whose handling finished, a
\* synthesized 400 or 502 included, left exactly one request log block and
\* exactly one response block or error line, the blocks carrying the id of the
\* connection.
C32_OneRequestBlockOneAnswerEntry ==
    \A c \in Conns :
        (NonTunnel(c) /\ Returned(c)) =>
            /\ CountKinds(c, {"REQUEST"}) = 1
            /\ CountKinds(c, {"RESPONSE", "eprintln"}) = 1
            /\ \A i \in 1..Len(conns[c].trace) :
                   conns[c].trace[i].kind \in {"REQUEST", "RESPONSE"} =>
                       conns[c].trace[i].conn_id = conns[c].conn_id.v

\* C33 as stated: with body logging on, for every body and every max_body_bytes,
\* 0 included, a block shows the "no body" marker exactly when the body is
\* empty, shows a non-empty body longer than the cap with the truncation
\* marker, and shows a non-empty body within the cap whole, without it.
C33_MarkerMatchesBody ==
    \A c \in Conns :
        \A i \in LogBlocks(conns[c], "REQUEST") \cup LogBlocks(conns[c], "RESPONSE") :
            LET block == conns[c].trace[i]
                body == PreviewedBody(conns[c], block)
            IN  cfg.include_bodies =>
                    /\ block.body.some
                    /\ block.body.v.form = "no body" <=> body = <<>>
                    /\ (body # <<>> /\ Len(body) > cfg.max_body_bytes) =>
                           block.body.v.form = "truncated"
                    /\ (body # <<>> /\ Len(body) <= cfg.max_body_bytes) =>
                           /\ block.body.v.form = "whole"
                           /\ block.body.v.printable = from_utf8_lossy(body)

\* The accepted sockets whose task has run past its first await.
Started == {c \in Conns : conns[c].phase # "spawned"}

\* C34 as stated: the counter starts at 1 and has been incremented exactly once
\* for every accepted socket whose task has run, with and without inbound TLS,
\* each task having read it once for its id.
C34_CounterCountsAcceptedSockets ==
    /\ conn_seq = 1 + Cardinality(Started)
    /\ \A c \in Started : conns[c].conn_id.some /\ conns[c].conn_id.v < conn_seq

\* The events of `evs` with the path `path`, in their order.
OnPath(evs, path) == SelectSeq(evs, LAMBDA e : e.path = path)

\* How many events of `evs` have a method that counts under `counter`.
CountFor(evs, counter) ==
    Cardinality({i \in 1..Len(evs) :
        counter = (IF evs[i].method \in {"GET", "POST", "PUT", "PATCH", "DELETE"}
                   THEN [GET |-> "get", POST |-> "post", PUT |-> "put",
                         PATCH |-> "patch", DELETE |-> "delete_"][evs[i].method]
                   ELSE "other")})

\* The records of the Aggregator agree with the events given to it.
RecordsMatchEvents ==
    dashboard.app.some =>
        LET map == dashboard.app.v.agg.map
        IN  /\ DOMAIN map = {dashboard.applied[i].path : i \in 1..Len(dashboard.applied)}
            /\ \A p \in DOMAIN map :
                   LET evs == OnPath(dashboard.applied, p)
                   IN  /\ map[p].path = p
                       /\ \A k \in DOMAIN MethodCounts_default :
                              map[p].counts[k] = CountFor(evs, k)
                       /\ map[p].last_seen = evs[Len(evs)].at

\* A step that applies an event leaves the record of every other path as it was.
OtherPathsUntouched ==
    (dashboard.app.some /\ dashboard'.app.some /\ Len(dashboard'.applied) = Len(dashboard.applied) + 1) =>
          \A p \in DOMAIN dashboard.app.v.agg.map :
              p # dashboard'.applied[Len(dashboard'.applied)].path =>
                  /\ p \in DOMAIN dashboard'.app.v.agg.map
                  /\ dashboard'.app.v.agg.map[p] = dashboard.app.v.agg.map[p]

\* C35: after any sequence of events given to an Aggregator there is one record
\* for every path that occurred and none for any other; each of its six
\* counters is the number of the path's events with that method, OTHER taking
\* every other method; last_seen is the time of the path's last event; and
\* applying an event changes no other path's record.
C35_AggregatorCounts == []RecordsMatchEvents /\ [][OtherPathsUntouched]_vars

\* C35 witness: three events were applied, two of one path at different times,
\* the later one first, and one of another path with a method that is none of
\* the five.
C35_Witness ==
    /\ dashboard.app.some
    /\ Len(dashboard.applied) = 3
    /\ dashboard.applied[1].path = dashboard.applied[2].path
    /\ dashboard.applied[1].at > dashboard.applied[2].at
    /\ dashboard.applied[3].path # dashboard.applied[1].path
    /\ dashboard.app.v.agg.map[dashboard.applied[3].path].counts.other = 1

\* C36: with insecure_upstream the client that is built presents no client
\* certificate; no file named by the upstream options was opened and no warning
\* was printed; the server-name override is the one thing taken from them.
C36_InsecureSkipsClientAuth ==
    (cfg # None /\ cfg.insecure_upstream) =>
        /\ main.warnings = <<>>
        /\ main.opened = <<>>
        /\ main.client.some =>
               /\ ~main.client.v.client_auth
               /\ main.client.v.extra_roots = 0
               /\ main.client.v.verifier = "NoVerifier"
               /\ main.client.v.server_name = cfg.upstream_server_name

\* C36 witness: insecure_upstream with a usable client certificate and key, a
\* CA file that cannot be opened and a server-name override; the client is
\* built and the proxy listens.
C36_Witness ==
    /\ cfg # None /\ cfg.insecure_upstream
    /\ listener = "listening"
    /\ main.client.some
    /\ cfg.upstream_client_cert = Some(F_cert)
    /\ cfg.upstream_client_key = Some(F_pkcs8)
    /\ cfg.upstream_ca = <<F_missing, F_cert>>
    /\ main.client.v.server_name = Some(V_host)

\* C37: whatever the repository and the keys pressed, the list run passes to
\* delete_branches names neither the base branch nor the branch checked out.
C37_BaseAndCurrentNeverPassed ==
    (run # None /\ run.passed.some) =>
        \A i \in 1..Len(run.passed.v) :
            /\ run.passed.v[i].name # run.base_branch.v
            /\ repo.head.some => run.passed.v[i].name # repo.head.v

\* C37 witness: a branch is checked out that is not the base branch, both are
\* among the local branches, every branch offered was selected with `a`, and
\* the list passed holds the two remaining branches.
C37_Witness ==
    /\ run # None /\ run.passed.some
    /\ repo.head.some
    /\ repo.head.v # run.base_branch.v
    /\ Len(run.passed.v) = 2
    /\ \A item \in {app.branches[i] : i \in 1..Len(app.branches)} : item.selected

=============================================================================
